---- MODULE Spec2Model ----
(***************************************************************************)
(* The parallel task-processing engine of webp-converter                   *)
(* (src/src/lib/parallel-processor.ts): class ParallelProcessor.           *)
(*                                                                         *)
(* JavaScript runs one job at a time, so each action below is one job of   *)
(* the event loop: the synchronous part of processAll, the continuation    *)
(* that runs when an executor promise settles, when the timeout timer of   *)
(* an attempt fires, when a backoff timer fires, and a call of cancel().   *)
(* A continuation is followed through every await whose promise is         *)
(* already settled, up to the next await on a timer or on the executor.    *)
(***************************************************************************)
EXTENDS Integers, Sequences, FiniteSets, TLC

\* ------------------------------------------------------------------ bounds
\* the scheduling configuration (Spec): more tasks, few retries
MaxTasks == 3
MaxConcurrency == 2
MaxRetries == 1
\* the retry configuration (RetrySpec): fewer tasks, more retries
DeepTasks == 2
DeepRetries == 3
\* a call after a cancelled call on the same instance (ReuseSpec)
ReuseTasks == 2
MaxEarlier == 2
ReuseRetries == 1
\* the arguments of chunk and chunkArray (ChunkSpec)
MaxItems == 4
MaxChunkSize == 3
\* convertImagesBatch (BatchSpec): the images of a call, and the chunk size,
\* which stands for BATCH_SIZE (10 in the source) so that a call of few images
\* has several chunks
MaxImages == 4
BatchSize == 2
\* parallelMap called directly (MapSpec): its items and its concurrency option
MaxMapItems == 3
MaxMapConcurrency == 2
\* convertImagesParallel (MapSpec): its images, more than CLIENT_CONCURRENCY
MaxClientImages == 7
\* calculateResizeDimensions (ResizeSpec): original dimensions and bounds
MaxDim == 5
\* processInParallel (ServerSpec): the files of a request, and the concurrency
\* argument, which stands for MAX_SERVER_CONCURRENCY so that a request of few
\* files has more files than slots
MaxFiles == 4
MaxServerConcurrency == 2
\* the page (PageSpec): the images ever added, and the object URLs ever
\* created for converted images
MaxPageImages == 2
MaxUrls == 3

\* CLIENT_CONCURRENCY of the client module
CLIENT_CONCURRENCY == 6
\* DEFAULT_OPTIONS.maxRetries of the ParallelProcessor
DefaultMaxRetries == 2
\* MAX_SERVER_CONCURRENCY of the batch route
MAX_SERVER_CONCURRENCY == 8

\* an optional field (priority?, maxRetries?, result?): absent, or holding v
Absent == <<>>
Some(v) == <<v>>
\* an absent error?, and the id of the undefined that Map.get gives for a missing key
Undefined == "undefined"

\* inputs of the bounded check
Priorities == {Absent, Some(0), Some(1)}
RetryOverrides == {Absent, Some(0)}
DeepOverrides == {Absent, Some(1)}
BaseDelays == {500}

\* error values a TaskResult can carry
ExecutorError == "ExecutorError"          \* the executor rejected with its own error
InvalidInputError == "InvalidInput"       \* the executor rejected its input (malformed, unsupported format)
TimeoutError == "Task timeout"            \* withTimeout's rejection
AbortedError == "Aborted"                 \* new Error('Aborted')
SignalError == "AbortSignalError"         \* the executor rejected because it saw the abort signal
\* what the executor can reject with of its own accord; the catch block gets any of them
ExecutorErrors == {ExecutorError, InvalidInputError}

VARIABLES
    tasks,          \* the argument of processAll: a sequence of Task records
    options,        \* this.options
    abortController,\* this.abortController: "null", "live" or "aborted"
    queue,          \* this.queue: indices into tasks (the Task objects)
    activeCount,    \* this.activeCount
    results,        \* this.results: the Map, as its entries in insertion order
    completed,      \* processAll's local counter
    promise,        \* the promise processAll returned: "none", "pending", "resolved"
    returned,       \* the array the promise resolved with
    phase,          \* per task: "queued", "running", "backoff", "done"
    attempt,        \* per task: executeWithRetry's loop variable
    lastError,      \* per task: executeWithRetry's lastError
    delayMs,        \* per task: the delay() a task in "backoff" is waiting on
    calls,          \* per task: how many times the executor was called
    fails,          \* per task: how many attempts failed (rejected or timed out)
    lastOutcome,    \* per task: "ok" or the error of the attempt that settled last
    waited,         \* per task: total of the delays that have elapsed
    events,         \* per task: the statuses passed to the progress callback, in order
    batch,          \* the (completed, total) pairs passed to onBatchProgress, in order
    cancelledAt,    \* the queue's content at the moment cancel() was called
    earlier,        \* what is left of an earlier processAll call on the same instance
    stats,          \* what getStats() returned inside the latest status callback and
                    \* inside the latest batch callback
    call,           \* a call of a pure function: its name and arguments, or Absent
    ret,            \* what that call returned, as Some(value), or Absent
    batchRun,       \* a call of convertImagesBatch: its arguments and locals, or Absent
    mapRun,         \* a call of convertImagesParallel / parallelMap, or Absent
    page,           \* the Home component: its state, its conversions in flight, its URLs
    serverRun       \* a call of processInParallel of the batch route, or Absent

\* the variables of the ParallelProcessor
schedVars == <<tasks, options, abortController, queue, activeCount, results, completed,
               promise, returned, phase, attempt, lastError, delayMs, calls, fails,
               lastOutcome, waited, events, batch, cancelledAt, earlier, stats>>

\* the variables of the client's conversion calls, of the page and of the route
clientVars == <<batchRun, mapRun, page, serverRun>>

vars == <<schedVars, call, ret, clientVars>>

N == Len(tasks)
TaskIx == 1..N

\* a task id: unique within the batch
IdOf(i) == "img-" \o ToString(i)

\* ------------------------------------------------------------------ helpers
RECURSIVE Pow2(_)
Pow2(k) == IF k = 0 THEN 1 ELSE 2 * Pow2(k - 1)

Min(a, b) == IF a <= b THEN a ELSE b

\* (t.priority ?? 0)
PriorityOf(t) == IF t.priority = Absent THEN 0 ELSE t.priority[1]

\* a bug: the queue left in input order
Unsorted(ts) == [i \in 1..Len(ts) |-> i]

\* Array.prototype.sort with the comparator (b.priority ?? 0) - (a.priority ?? 0):
\* a stable sort, here by insertion into a sequence of task indices
RECURSIVE InsertByPriority(_, _, _)
InsertByPriority(ts, sorted, i) ==
    IF sorted = <<>> THEN <<i>>
    ELSE IF PriorityOf(ts[i]) - PriorityOf(ts[Head(sorted)]) > 0
         THEN <<i>> \o sorted
         ELSE <<Head(sorted)>> \o InsertByPriority(ts, Tail(sorted), i)

RECURSIVE SortFrom(_, _, _)
SortFrom(ts, sorted, i) ==
    IF i > Len(ts) THEN sorted
    ELSE SortFrom(ts, InsertByPriority(ts, sorted, i), i + 1)

sortByPriority(ts) == SortFrom(ts, <<>>, 1)

\* a bug: the task's own maxRetries ignored
ConfiguredRetriesOnly(i) == options.maxRetries

\* task.maxRetries ?? this.options.maxRetries
MaxRetriesOf(i) ==
    IF tasks[i].maxRetries = Absent THEN options.maxRetries ELSE tasks[i].maxRetries[1]

\* a bug: linear instead of exponential backoff
LinearDelay(base, k) == base * (k + 1)

\* this.options.retryBaseDelay * Math.pow(2, attempt)
BackoffDelay(base, k) == base * Pow2(k)

\* ------------------------------------------------------------------ the Map
MapHas(m, id) == \E k \in 1..Len(m) : m[k].id = id
UndefinedResult == [id |-> Undefined, success |-> FALSE, result |-> Absent, error |-> Undefined]
MapGet(m, id) ==
    IF MapHas(m, id) THEN m[CHOOSE k \in 1..Len(m) : m[k].id = id] ELSE UndefinedResult
MapSet(m, r) ==
    IF MapHas(m, r.id)
    THEN [k \in 1..Len(m) |-> IF m[k].id = r.id THEN r ELSE m[k]]
    ELSE Append(m, r)

\* ------------------------------------------------------------------ state as a record
\* The mutable state the handlers read and write, so that the calls a handler
\* makes in sequence compose as functions.
Cur == [abortController |-> abortController, queue |-> queue, activeCount |-> activeCount,
        results |-> results, completed |-> completed, promise |-> promise,
        returned |-> returned, phase |-> phase, attempt |-> attempt,
        lastError |-> lastError, delayMs |-> delayMs, calls |-> calls, fails |-> fails,
        lastOutcome |-> lastOutcome,
        waited |-> waited, events |-> events, batch |-> batch, earlier |-> earlier,
        stats |-> stats]

Commit(s) ==
    /\ abortController' = s.abortController
    /\ queue' = s.queue
    /\ activeCount' = s.activeCount
    /\ results' = s.results
    /\ completed' = s.completed
    /\ promise' = s.promise
    /\ returned' = s.returned
    /\ phase' = s.phase
    /\ attempt' = s.attempt
    /\ lastError' = s.lastError
    /\ delayMs' = s.delayMs
    /\ calls' = s.calls
    /\ fails' = s.fails
    /\ lastOutcome' = s.lastOutcome
    /\ waited' = s.waited
    /\ events' = s.events
    /\ batch' = s.batch
    /\ earlier' = s.earlier
    /\ stats' = s.stats

\* getStats()
getStats(s) ==
    [activeCount |-> s.activeCount, queueLength |-> Len(s.queue),
     completedCount |-> Len(s.results)]

\* this.progressCallback?.(update); the callback may call getStats()
emitProgress(s, i, status) ==
    [s EXCEPT !.events = [@ EXCEPT ![i] = Append(@, status)],
              !.stats.status = Some(getStats(s))]

\* a bug: the results in the Map's own order, the order of completion
ResultsInCompletionOrder(m) == m

\* tasks.map(t => this.results.get(t.id)!)
OrderedResults(m) == [i \in TaskIx |-> MapGet(m, tasks[i].id)]

\* checkCompletion
checkCompletion(s) ==
    IF Len(s.results) = N /\ s.promise = "pending"
    THEN [s EXCEPT !.promise = "resolved", !.returned = OrderedResults(s.results)]
    ELSE s

\* this.processor(task.data, signal) inside withTimeout: the attempt is in flight
CallProcessor(s, i) ==
    [s EXCEPT !.phase = [@ EXCEPT ![i] = "running"],
              !.calls = [@ EXCEPT ![i] = @ + 1]]

\* a bug: a fill loop that forgets the concurrency limit
RECURSIVE processNextUnlimited(_)
processNextUnlimited(s) ==
    IF s.abortController = "aborted" \/ Len(s.queue) = 0 THEN s
    ELSE LET i == Head(s.queue)
             s1 == [s EXCEPT !.queue = Tail(@), !.activeCount = @ + 1]
             s2 == emitProgress(s1, i, "processing")
             s3 == [s2 EXCEPT !.attempt = [@ EXCEPT ![i] = 0]]
         IN  processNextUnlimited(CallProcessor(s3, i))

\* processNext up to its await: the guard, the shift, the 'processing' event and
\* the first iteration of executeWithRetry's loop. The abort test of that first
\* iteration repeats the test processNext has just made, in the same job.
processNext(s) ==
    IF s.abortController = "aborted" THEN s
    ELSE IF Len(s.queue) = 0 \/ s.activeCount >= options.concurrency THEN s
    ELSE LET i == Head(s.queue)
             s1 == [s EXCEPT !.queue = Tail(@), !.activeCount = @ + 1]
             s2 == emitProgress(s1, i, "processing")
             s3 == [s2 EXCEPT !.attempt = [@ EXCEPT ![i] = 0]]
         IN  CallProcessor(s3, i)

RECURSIVE Times(_, _)
Times(s, n) == IF n = 0 THEN s ELSE Times(processNext(s), n - 1)

\* ------------------------------------------------------------------ an earlier call
\* The fields queue, activeCount, results and abortController belong to the
\* instance; total, completed, tasks, checkCompletion and processNext belong to
\* one processAll call (its closure). A task runs in the closure of the call
\* whose processNext took it from the queue. `earlier` is the closure of a call
\* made before the one the other variables describe, and its tasks in flight.
NoEarlier == [total |-> 0, completed |-> 0, promise |-> "none", returned |-> <<>>,
              tasks |-> <<>>, adopted |-> {}]

\* the id of the j-th task of the earlier call
EarlierId(j) == "old-" \o ToString(j)

\* checkCompletion in the earlier call's closure: its total and its tasks, the
\* instance's Map
earlierCheckCompletion(s) ==
    IF Len(s.results) = s.earlier.total /\ s.earlier.promise = "pending"
    THEN [s EXCEPT !.earlier.promise = "resolved",
                   !.earlier.returned =
                       [j \in 1..s.earlier.total |-> MapGet(s.results, EarlierId(j))]]
    ELSE s

\* processNext in the earlier call's closure: the same guard on the instance's
\* fields; the task it takes from the queue runs in the earlier closure
earlierProcessNext(s) ==
    LET s1 == processNext(s)
    IN  [s1 EXCEPT !.earlier.adopted =
            @ \cup {i \in TaskIx : s.phase[i] = "queued" /\ s1.phase[i] # "queued"}]

\* a bug: the finally block frees the slot but does not start the next task
SettleWithoutRefill(s, i, r) ==
    LET mine == i \notin s.earlier.adopted
        s0 == [s EXCEPT !.attempt = [@ EXCEPT ![i] = 0],
                        !.lastError = [@ EXCEPT ![i] = Undefined]]
        s1 == [s0 EXCEPT !.results = MapSet(@, r),
                         !.phase = [@ EXCEPT ![i] = "done"]]
        s2 == emitProgress(s1, i, IF r.success THEN "completed" ELSE "failed")
        s3 == IF mine THEN [s2 EXCEPT !.completed = @ + 1]
                      ELSE [s2 EXCEPT !.earlier.completed = @ + 1]
        s4 == IF mine THEN [s3 EXCEPT !.batch = Append(@, <<s3.completed, N>>),
                                      !.stats.batch = Some(getStats(s3))]
                      ELSE s3
        s5 == [s4 EXCEPT !.activeCount = @ - 1]
    IN  IF mine THEN checkCompletion(s5) ELSE earlierCheckCompletion(s5)

\* a bug: the batch callback is called before the counter is raised
SettleReportsStaleCount(s, i, r) ==
    LET mine == i \notin s.earlier.adopted
        s0 == [s EXCEPT !.attempt = [@ EXCEPT ![i] = 0],
                        !.lastError = [@ EXCEPT ![i] = Undefined]]
        s1 == [s0 EXCEPT !.results = MapSet(@, r),
                         !.phase = [@ EXCEPT ![i] = "done"]]
        s2 == emitProgress(s1, i, IF r.success THEN "completed" ELSE "failed")
        s3 == IF mine THEN [s2 EXCEPT !.batch = Append(@, <<s2.completed, N>>),
                                      !.stats.batch = Some(getStats(s2))]
                      ELSE s2
        s4 == IF mine THEN [s3 EXCEPT !.completed = @ + 1]
                      ELSE [s3 EXCEPT !.earlier.completed = @ + 1]
        s5 == [s4 EXCEPT !.activeCount = @ - 1]
    IN  IF mine THEN processNext(checkCompletion(s5))
                ELSE earlierProcessNext(earlierCheckCompletion(s5))

\* a bug: the terminal event does not look at the result's success flag
SettleAlwaysCompleted(s, i, r) ==
    LET mine == i \notin s.earlier.adopted
        s0 == [s EXCEPT !.attempt = [@ EXCEPT ![i] = 0],
                        !.lastError = [@ EXCEPT ![i] = Undefined]]
        s1 == [s0 EXCEPT !.results = MapSet(@, r),
                         !.phase = [@ EXCEPT ![i] = "done"]]
        s2 == emitProgress(s1, i, "completed")
        s3 == IF mine THEN [s2 EXCEPT !.completed = @ + 1]
                      ELSE [s2 EXCEPT !.earlier.completed = @ + 1]
        s4 == IF mine THEN [s3 EXCEPT !.batch = Append(@, <<s3.completed, N>>),
                                      !.stats.batch = Some(getStats(s3))]
                      ELSE s3
        s5 == [s4 EXCEPT !.activeCount = @ - 1]
    IN  IF mine THEN processNext(checkCompletion(s5))
                ELSE earlierProcessNext(earlierCheckCompletion(s5))

\* processNext after its await: executeWithRetry has returned r (its locals are
\* gone), the result is stored and reported, the closure's counter is raised
\* and its batch callback called (it may call getStats()), then the finally block frees the slot, checks
\* for completion and starts the next task
Settle(s, i, r) ==
    LET mine == i \notin s.earlier.adopted
        s0 == [s EXCEPT !.attempt = [@ EXCEPT ![i] = 0],
                        !.lastError = [@ EXCEPT ![i] = Undefined]]
        s1 == [s0 EXCEPT !.results = MapSet(@, r),
                         !.phase = [@ EXCEPT ![i] = "done"]]
        s2 == emitProgress(s1, i, IF r.success THEN "completed" ELSE "failed")
        s3 == IF mine THEN [s2 EXCEPT !.completed = @ + 1]
                      ELSE [s2 EXCEPT !.earlier.completed = @ + 1]
        s4 == IF mine THEN [s3 EXCEPT !.batch = Append(@, <<s3.completed, N>>),
                                      !.stats.batch = Some(getStats(s3))]
                      ELSE s3
        s5 == [s4 EXCEPT !.activeCount = @ - 1]
    IN  IF mine THEN processNext(checkCompletion(s5))
                ELSE earlierProcessNext(earlierCheckCompletion(s5))

SuccessResult(i) ==
    [id |-> tasks[i].id, success |-> TRUE, result |-> Some(i), error |-> Undefined]
\* a bug: the failure result built without its error
FailureWithoutError(i, err) ==
    [id |-> tasks[i].id, success |-> FALSE, result |-> Absent, error |-> Undefined]

FailureResult(i, err) ==
    [id |-> tasks[i].id, success |-> FALSE, result |-> Absent, error |-> err]

\* the head of executeWithRetry's loop for the iteration s.attempt[i]
LoopHead(s, i) ==
    IF s.attempt[i] <= MaxRetriesOf(i)
    THEN IF s.abortController = "aborted"
         THEN Settle(s, i, FailureResult(i, AbortedError))
         ELSE CallProcessor(s, i)
    ELSE Settle(s, i, FailureResult(i, s.lastError[i]))

\* a bug: the error of the last attempt escapes executeWithRetry instead of
\* being returned; processNext's finally block still runs
CatchAndRethrow(s, i, err) ==
    LET s1 == [s EXCEPT !.lastError = [@ EXCEPT ![i] = err],
                        !.fails = [@ EXCEPT ![i] = @ + 1],
                        !.lastOutcome = [@ EXCEPT ![i] = err]]
    IN  IF s1.attempt[i] < MaxRetriesOf(i)
        THEN LET s2 == emitProgress(s1, i, "retrying")
             IN  [s2 EXCEPT !.phase = [@ EXCEPT ![i] = "backoff"],
                            !.delayMs = [@ EXCEPT ![i] =
                                BackoffDelay(options.retryBaseDelay, s1.attempt[i])]]
        ELSE processNext(checkCompletion(
                 [s1 EXCEPT !.phase = [@ EXCEPT ![i] = "done"],
                            !.attempt = [@ EXCEPT ![i] = 0],
                            !.lastError = [@ EXCEPT ![i] = Undefined],
                            !.activeCount = @ - 1]))

\* the catch block of executeWithRetry
Catch(s, i, err) ==
    LET s1 == [s EXCEPT !.lastError = [@ EXCEPT ![i] = err],
                        !.fails = [@ EXCEPT ![i] = @ + 1],
                        !.lastOutcome = [@ EXCEPT ![i] = err]]
    IN  IF s1.attempt[i] < MaxRetriesOf(i)
        THEN LET s2 == emitProgress(s1, i, "retrying")
             IN  [s2 EXCEPT !.phase = [@ EXCEPT ![i] = "backoff"],
                            !.delayMs = [@ EXCEPT ![i] =
                                BackoffDelay(options.retryBaseDelay, s1.attempt[i])]]
        ELSE LoopHead([s1 EXCEPT !.attempt = [@ EXCEPT ![i] = @ + 1]], i)

\* a bug: the success is recorded but the loop goes on to its next iteration
FulfilledWithoutReturn(s, i) ==
    LoopHead([s EXCEPT !.lastOutcome = [@ EXCEPT ![i] = "ok"],
                       !.attempt = [@ EXCEPT ![i] = @ + 1]], i)

\* a bug: a timeout ends the task at once, without a retry
TimeoutIsFinal(s, i) ==
    Settle([s EXCEPT !.fails = [@ EXCEPT ![i] = @ + 1],
                     !.lastOutcome = [@ EXCEPT ![i] = TimeoutError]],
           i, FailureResult(i, TimeoutError))

\* the try block of executeWithRetry after its await: the attempt's promise fulfilled
OnFulfilled(s, i) ==
    Settle([s EXCEPT !.lastOutcome = [@ EXCEPT ![i] = "ok"]], i, SuccessResult(i))

\* withTimeout's timer rejects the race: the catch block gets the timeout
\* error. Promise.race only stops waiting: the executor call goes on
OnTimeout(s, i) ==
    Catch(s, i, TimeoutError)

\* ------------------------------------------------------------------ initial state
\* no pure function has been called
NoCall == call = Absent /\ ret = Absent
\* the client has started no conversion call
NoClientRun == batchRun = Absent /\ mapRun = Absent /\ page = Absent /\ serverRun = Absent

\* the task lists of at most n tasks, ids distinct
TaskLists(n, prios, overrides) ==
    UNION {[1..k -> [id : {Undefined}, priority : prios, maxRetries : overrides]] : k \in 0..n}

WithIds(ts) == [i \in 1..Len(ts) |-> [ts[i] EXCEPT !.id = IdOf(i)]]

\* the state after the constructor, for a task list and options to come
Constructed(lists, opts) ==
    /\ \E ts \in lists : tasks = WithIds(ts)
    /\ options \in opts
    /\ abortController = "null"
    /\ queue = <<>>
    /\ activeCount = 0
    /\ results = <<>>
    /\ completed = 0
    /\ promise = "none"
    /\ returned = <<>>
    /\ phase = [i \in TaskIx |-> "queued"]
    /\ attempt = [i \in TaskIx |-> 0]
    /\ lastError = [i \in TaskIx |-> Undefined]
    /\ delayMs = [i \in TaskIx |-> 0]
    /\ calls = [i \in TaskIx |-> 0]
    /\ fails = [i \in TaskIx |-> 0]
    /\ lastOutcome = [i \in TaskIx |-> Undefined]
    /\ waited = [i \in TaskIx |-> 0]
    /\ events = [i \in TaskIx |-> <<>>]
    /\ batch = <<>>
    /\ cancelledAt = <<>>
    /\ earlier = NoEarlier
    /\ stats = [status |-> Absent, batch |-> Absent]

Init ==
    /\ Constructed(TaskLists(MaxTasks, Priorities, RetryOverrides),
                   [concurrency : 1..MaxConcurrency, maxRetries : 0..MaxRetries,
                    retryBaseDelay : BaseDelays])
    /\ NoCall
    /\ NoClientRun

InitRetry ==
    /\ Constructed(TaskLists(DeepTasks, {Absent}, DeepOverrides),
                   [concurrency : 1..MaxConcurrency, maxRetries : 0..DeepRetries,
                    retryBaseDelay : BaseDelays])
    /\ NoCall
    /\ NoClientRun

\* ------------------------------------------------------------------ actions
\* processAll(tasks): everything it does before it returns the promise
ProcessAll ==
    /\ promise = "none"
    /\ IF N = 0
       THEN \E s \in {[Cur EXCEPT !.promise = "resolved", !.returned = <<>>]} : Commit(s)
       ELSE LET s1 == [Cur EXCEPT !.abortController = "live",
                                  !.queue = sortByPriority(tasks),
                                  !.results = <<>>,
                                  !.activeCount = 0,
                                  !.completed = 0,
                                  !.promise = "pending"]
            IN  \E s \in {Times(s1, Min(options.concurrency, N))} : Commit(s)
    /\ UNCHANGED <<tasks, options, cancelledAt, call, ret, clientVars>>

\* the executor's promise fulfils before the timeout: the attempt succeeds
ExecutorResolves(i) ==
    /\ phase[i] = "running"
    /\ \E s \in {OnFulfilled(Cur, i)} : Commit(s)
    /\ UNCHANGED <<tasks, options, cancelledAt, call, ret, clientVars>>

\* the executor's promise rejects before the timeout
ExecutorRejects(i) ==
    /\ phase[i] = "running"
    /\ \E err \in ExecutorErrors : \E s \in {Catch(Cur, i, err)} : Commit(s)
    /\ UNCHANGED <<tasks, options, cancelledAt, call, ret, clientVars>>

\* the executor sees the abort signal and rejects
ExecutorSeesAbort(i) ==
    /\ phase[i] = "running"
    /\ abortController = "aborted"
    /\ \E s \in {Catch(Cur, i, SignalError)} : Commit(s)
    /\ UNCHANGED <<tasks, options, cancelledAt, call, ret, clientVars>>

\* withTimeout's timer fires while the executor has not settled
TimeoutFires(i) ==
    /\ phase[i] = "running"
    /\ \E s \in {OnTimeout(Cur, i)} : Commit(s)
    /\ UNCHANGED <<tasks, options, cancelledAt, call, ret, clientVars>>

\* the backoff delay() ends: the loop goes to its next iteration
DelayElapses(i) ==
    /\ phase[i] = "backoff"
    /\ LET s1 == [Cur EXCEPT !.waited = [@ EXCEPT ![i] = @ + delayMs[i]],
                             !.delayMs = [@ EXCEPT ![i] = 0],
                             !.attempt = [@ EXCEPT ![i] = @ + 1]]
       IN  \E s \in {LoopHead(s1, i)} : Commit(s)
    /\ UNCHANGED <<tasks, options, cancelledAt, call, ret, clientVars>>

\* cancel(), called while the run is in progress
Cancel ==
    /\ promise = "pending"
    /\ abortController = "live"
    /\ \E s \in {[Cur EXCEPT !.abortController = "aborted", !.queue = <<>>]} : Commit(s)
    /\ cancelledAt' = queue
    /\ UNCHANGED <<tasks, options, call, ret, clientVars>>

Next ==
    \/ ProcessAll
    \/ \E i \in TaskIx : ExecutorResolves(i)
    \/ \E i \in TaskIx : ExecutorRejects(i)
    \/ \E i \in TaskIx : ExecutorSeesAbort(i)
    \/ \E i \in TaskIx : TimeoutFires(i)
    \/ \E i \in TaskIx : DelayElapses(i)
    \/ Cancel

Spec == Init /\ [][Next]_vars

RetrySpec == InitRetry /\ [][Next]_vars

\* The runtime fires every timer that is set; nothing makes an executor settle.
Timers ==
    \/ \E i \in TaskIx : TimeoutFires(i)
    \/ \E i \in TaskIx : DelayElapses(i)

FairRetrySpec == InitRetry /\ [][Next]_vars /\ WF_vars(Timers)

\* ------------------------------------------------------------------ reuse of an instance
\* The tasks of the earlier call run the same executeWithRetry and the same
\* continuation of processNext as the tasks above, on `this` as it is when
\* they run, and in the earlier call's closure. earlier.tasks[j] holds the
\* locals of executeWithRetry for the j-th of them and the signal its executor
\* was given.
EarlierSuccess(j) ==
    [id |-> EarlierId(j), success |-> TRUE, result |-> Some(0 - j), error |-> Undefined]
EarlierFailure(j, err) ==
    [id |-> EarlierId(j), success |-> FALSE, result |-> Absent, error |-> err]

\* processNext after its await, for a task of the earlier call
EarlierSettle(s, j, r) ==
    LET s1 == [s EXCEPT !.results = MapSet(@, r),
                        !.earlier.tasks[j].phase = "done",
                        !.earlier.tasks[j].attempt = 0,
                        !.earlier.tasks[j].lastError = Undefined]
        s3 == [s1 EXCEPT !.earlier.completed = @ + 1]
        s5 == [s3 EXCEPT !.activeCount = @ - 1]
    IN  earlierProcessNext(earlierCheckCompletion(s5))

\* the head of executeWithRetry's loop: it reads this.abortController, the
\* controller of the latest call, and passes that controller's signal on
EarlierLoopHead(s, j) ==
    IF s.earlier.tasks[j].attempt <= options.maxRetries
    THEN IF s.abortController = "aborted"
         THEN EarlierSettle(s, j, EarlierFailure(j, AbortedError))
         ELSE [s EXCEPT !.earlier.tasks[j].phase = "running",
                        !.earlier.tasks[j].signal = "current"]
    ELSE EarlierSettle(s, j, EarlierFailure(j, s.earlier.tasks[j].lastError))

\* the catch block
EarlierCatch(s, j, err) ==
    LET s1 == [s EXCEPT !.earlier.tasks[j].lastError = err]
    IN  IF s1.earlier.tasks[j].attempt < options.maxRetries
        THEN [s1 EXCEPT !.earlier.tasks[j].phase = "backoff"]
        ELSE EarlierLoopHead([s1 EXCEPT !.earlier.tasks[j].attempt = @ + 1], j)

InitReuse ==
    /\ Constructed(TaskLists(ReuseTasks, {Absent}, {Absent}),
                   [concurrency : 1..MaxConcurrency, maxRetries : 0..ReuseRetries,
                    retryBaseDelay : BaseDelays])
    /\ NoCall
    /\ NoClientRun

\* one job of the caller: processAll(n tasks) and then cancel(). The call takes
\* its first min(concurrency, n) tasks into flight; cancel() aborts its
\* controller and empties the queue.
EarlierCallCancelled ==
    /\ promise = "none"
    /\ earlier.promise = "none"
    /\ \E n \in 1..MaxEarlier :
          LET k == Min(options.concurrency, n)
              e == [total |-> n, completed |-> 0, promise |-> "pending", returned |-> <<>>,
                    tasks |-> [j \in 1..k |-> [phase |-> "running", attempt |-> 0,
                                               lastError |-> Undefined, signal |-> "earlier"]],
                    adopted |-> {}]
          IN  \E s \in {[Cur EXCEPT !.abortController = "aborted", !.queue = <<>>,
                                    !.results = <<>>, !.activeCount = k,
                                    !.earlier = e]} : Commit(s)
    /\ UNCHANGED <<tasks, options, cancelledAt, call, ret, clientVars>>

EarlierExecutorResolves(j) ==
    /\ earlier.tasks[j].phase = "running"
    /\ \E s \in {EarlierSettle(Cur, j, EarlierSuccess(j))} : Commit(s)
    /\ UNCHANGED <<tasks, options, cancelledAt, call, ret, clientVars>>

\* the executor rejects: with an error of its own, or because the signal it
\* was given is aborted
EarlierExecutorRejects(j) ==
    /\ earlier.tasks[j].phase = "running"
    /\ \E err \in ExecutorErrors \cup {SignalError} :
          /\ err = SignalError =>
                (earlier.tasks[j].signal = "earlier" \/ abortController = "aborted")
          /\ \E s \in {EarlierCatch(Cur, j, err)} : Commit(s)
    /\ UNCHANGED <<tasks, options, cancelledAt, call, ret, clientVars>>

EarlierTimeoutFires(j) ==
    /\ earlier.tasks[j].phase = "running"
    /\ \E s \in {EarlierCatch(Cur, j, TimeoutError)} : Commit(s)
    /\ UNCHANGED <<tasks, options, cancelledAt, call, ret, clientVars>>

EarlierDelayElapses(j) ==
    /\ earlier.tasks[j].phase = "backoff"
    /\ \E s \in {EarlierLoopHead([Cur EXCEPT !.earlier.tasks[j].attempt = @ + 1], j)} :
          Commit(s)
    /\ UNCHANGED <<tasks, options, cancelledAt, call, ret, clientVars>>

ReuseNext ==
    \/ EarlierCallCancelled
    \/ Next
    \/ \E j \in 1..Len(earlier.tasks) : EarlierExecutorResolves(j)
    \/ \E j \in 1..Len(earlier.tasks) : EarlierExecutorRejects(j)
    \/ \E j \in 1..Len(earlier.tasks) : EarlierTimeoutFires(j)
    \/ \E j \in 1..Len(earlier.tasks) : EarlierDelayElapses(j)

ReuseSpec == InitReuse /\ [][ReuseNext]_vars

\* ------------------------------------------------------------------ chunk, chunkArray
\* Array.prototype.slice(from, to) for 0 <= from <= to: the elements at the
\* 0-based indices from .. to-1 that exist
Slice(a, from, to) ==
    LET lo == Min(from, Len(a))
        hi == Min(to, Len(a))
    IN  [k \in 1..(hi - lo) |-> a[lo + k]]

\* a bug: the loop stops before a last chunk that is not full
RECURSIVE ChunkLoopDropsTail(_, _, _, _)
ChunkLoopDropsTail(items, size, i, chunks) ==
    IF i + size <= Len(items)
    THEN ChunkLoopDropsTail(items, size, i + size, Append(chunks, Slice(items, i, i + size)))
    ELSE chunks

\* chunk's loop: for (let i = 0; i < items.length; i += size) chunks.push(...)
RECURSIVE ChunkLoop(_, _, _, _)
ChunkLoop(items, size, i, chunks) ==
    IF i < Len(items)
    THEN ChunkLoop(items, size, i + size, Append(chunks, Slice(items, i, i + size)))
    ELSE chunks

chunk(items, size) == ChunkLoop(items, size, 0, <<>>)

\* chunkArray's loop, the same statement in the client module
RECURSIVE ChunkArrayLoop(_, _, _, _)
ChunkArrayLoop(array, size, i, chunks) ==
    IF i < Len(array)
    THEN ChunkArrayLoop(array, size, i + size, Append(chunks, Slice(array, i, i + size)))
    ELSE chunks

chunkArray(array, size) == ChunkArrayLoop(array, size, 0, <<>>)

\* the arrays and sizes of the bounded check: size >= 1
ItemLists == UNION {[1..n -> {"a", "b"}] : n \in 0..MaxItems}
ChunkSizes == 1..MaxChunkSize

\* a ParallelProcessor that is constructed and never used
IdleProcessor ==
    Constructed({<<>>}, {[concurrency |-> 1, maxRetries |-> 0, retryBaseDelay |-> 500]})

InitChunk ==
    /\ IdleProcessor
    /\ call \in [fn : {"chunk", "chunkArray"}, items : ItemLists, size : ChunkSizes]
    /\ ret = Absent
    /\ NoClientRun

CallChunk ==
    /\ ret = Absent
    /\ call.fn = "chunk"
    /\ ret' = Some(chunk(call.items, call.size))
    /\ UNCHANGED <<schedVars, call, clientVars>>

CallChunkArray ==
    /\ ret = Absent
    /\ call.fn = "chunkArray"
    /\ ret' = Some(chunkArray(call.items, call.size))
    /\ UNCHANGED <<schedVars, call, clientVars>>

ChunkNext == CallChunk \/ CallChunkArray

ChunkSpec == InitChunk /\ [][ChunkNext]_vars

\* ------------------------------------------------------------------ convertImagesBatch
\* One call of convertImagesBatch (src/lib/image-converter.ts). batchRun holds
\* the argument images (their ids), the locals chunks, results and
\* totalCompleted, the position k of the for-of loop, the await the call is
\* suspended at (pc), the (completed, total) pairs passed to onProgress, and
\* the chunks a request was sent for.
NetworkError == "Failed to fetch"            \* fetch rejected
ParseError == "Unexpected end of JSON input" \* response.json() rejected
BatchFailed == "Batch conversion failed"
ConversionFailed == "Conversion failed"

ImageLists == {[i \in 1..n |-> IdOf(i)] : n \in 0..MaxImages}

\* the permutations of a sequence
Perms(q) ==
    {[i \in 1..Len(q) |-> q[f[i]]] :
        f \in {g \in [1..Len(q) -> 1..Len(q)] : \A a, b \in 1..Len(q) : a # b => g[a] # g[b]}}

\* data.results of an OK response for a chunk: processInParallel pushes one
\* result per file of the request when its conversion ends, so they come in
\* the order of completion; a failed conversion has no data and an error
ServiceResults(part) ==
    {[i \in 1..Len(part) |-> [id |-> p[i], success |-> ok[i]]] :
        p \in Perms(part), ok \in [1..Len(part) -> BOOLEAN]}

\* the for-of loop goes to its next chunk and sends its request, or the
\* function returns results
NextChunk(run) ==
    IF run.k + 1 <= Len(run.chunks)
    THEN [run EXCEPT !.k = @ + 1, !.pc = "fetch", !.sent = Append(@, run.k + 1)]
    ELSE [run EXCEPT !.k = @ + 1, !.pc = "returned"]

\* the loops that mark a whole chunk as failed: the one of the catch block
\* reports progress after each item
RECURSIVE FailEach(_, _, _, _)
FailEach(run, part, i, err) ==
    IF i > Len(part) THEN run
    ELSE LET r1 == [run EXCEPT !.results = Append(@, [id |-> part[i], success |-> FALSE,
                                                      error |-> err])]
             r2 == [r1 EXCEPT !.totalCompleted = @ + 1]
             r3 == [r2 EXCEPT !.progress = Append(@, <<r2.totalCompleted, Len(run.images)>>)]
         IN  FailEach(r3, part, i + 1, err)

RECURSIVE FailAll(_, _, _)
FailAll(run, part, i) ==
    IF i > Len(part) THEN run
    ELSE FailAll([run EXCEPT !.results = Append(@, [id |-> part[i], success |-> FALSE,
                                                    error |-> BatchFailed])], part, i + 1)

\* the loop over data.results
RECURSIVE EachResult(_, _, _)
EachResult(run, data, i) ==
    IF i > Len(data) THEN run
    ELSE LET r1 == [run EXCEPT !.results = Append(@,
                        IF data[i].success
                        THEN [id |-> data[i].id, success |-> TRUE, error |-> Undefined]
                        ELSE [id |-> data[i].id, success |-> FALSE, error |-> ConversionFailed])]
             r2 == [r1 EXCEPT !.totalCompleted = @ + 1]
             r3 == [r2 EXCEPT !.progress = Append(@, <<r2.totalCompleted, Len(run.images)>>)]
         IN  EachResult(r3, data, i + 1)

\* a bug: the items of a chunk that is not OK are counted one by one and then
\* once more as a whole
OnNotOkCountsTwice(run) ==
    LET part == run.chunks[run.k]
        r1 == FailEach(run, part, 1, BatchFailed)
        r2 == [r1 EXCEPT !.totalCompleted = @ + Len(part)]
        r3 == [r2 EXCEPT !.progress = Append(@, <<r2.totalCompleted, Len(run.images)>>)]
    IN  NextChunk(r3)

\* the branch for a response that is not OK
OnNotOk(run) ==
    LET part == run.chunks[run.k]
        r1 == FailAll(run, part, 1)
        r2 == [r1 EXCEPT !.totalCompleted = @ + Len(part)]
        r3 == [r2 EXCEPT !.progress = Append(@, <<r2.totalCompleted, Len(run.images)>>)]
    IN  NextChunk(r3)

\* a bug: the error of a request ends the whole call
OnRequestErrorReturns(run, err) ==
    [FailEach(run, run.chunks[run.k], 1, err) EXCEPT !.pc = "returned"]

\* the catch block
OnRequestError(run, err) == NextChunk(FailEach(run, run.chunks[run.k], 1, err))

InitBatch ==
    /\ IdleProcessor
    /\ NoCall
    /\ mapRun = Absent /\ page = Absent /\ serverRun = Absent
    /\ batchRun \in [images : ImageLists, chunks : {<<>>}, k : {0}, pc : {"start"},
                      results : {<<>>}, totalCompleted : {0}, progress : {<<>>},
                      sent : {<<>>}, failed : {{}}]

\* convertImagesBatch(images, options, onProgress) up to its first await
ConvertImagesBatch ==
    /\ batchRun.pc = "start"
    /\ batchRun' = NextChunk([batchRun EXCEPT !.chunks = chunkArray(batchRun.images, BatchSize)])
    /\ UNCHANGED <<schedVars, call, ret, mapRun, page, serverRun>>

\* fetch rejects: a network error
FetchRejects ==
    /\ batchRun.pc = "fetch"
    /\ batchRun' = OnRequestError([batchRun EXCEPT !.failed = @ \cup {batchRun.k}], NetworkError)
    /\ UNCHANGED <<schedVars, call, ret, mapRun, page, serverRun>>

\* fetch resolves with a response that is not OK
FetchResolvesNotOk ==
    /\ batchRun.pc = "fetch"
    /\ batchRun' = OnNotOk([batchRun EXCEPT !.failed = @ \cup {batchRun.k}])
    /\ UNCHANGED <<schedVars, call, ret, mapRun, page, serverRun>>

\* fetch resolves with an OK response: the call awaits response.json()
FetchResolvesOk ==
    /\ batchRun.pc = "fetch"
    /\ batchRun' = [batchRun EXCEPT !.pc = "json"]
    /\ UNCHANGED <<schedVars, call, ret, mapRun, page, serverRun>>

\* response.json() rejects
JsonRejects ==
    /\ batchRun.pc = "json"
    /\ batchRun' = OnRequestError([batchRun EXCEPT !.failed = @ \cup {batchRun.k}], ParseError)
    /\ UNCHANGED <<schedVars, call, ret, mapRun, page, serverRun>>

\* response.json() resolves with the endpoint's answer
JsonResolves ==
    /\ batchRun.pc = "json"
    /\ \E data \in ServiceResults(batchRun.chunks[batchRun.k]) :
          batchRun' = NextChunk(EachResult(batchRun, data, 1))
    /\ UNCHANGED <<schedVars, call, ret, mapRun, page, serverRun>>

BatchNext ==
    \/ ConvertImagesBatch
    \/ FetchRejects
    \/ FetchResolvesNotOk
    \/ FetchResolvesOk
    \/ JsonRejects
    \/ JsonResolves

BatchSpec == InitBatch /\ [][BatchNext]_vars

\* ------------------------------------------------------------------ parallelMap
\* One call of parallelMap, made directly (fn = "parallelMap") or by
\* convertImagesParallel with concurrency CLIENT_CONCURRENCY and the processor
\* that wraps convertImage in try/catch. mapRun holds the items (their ids),
\* the concurrency, the locals nextIndex, completed and results, per item the
\* state of its processor call and the number of convertImage / processor
\* calls made for it and how that call settled, per worker the index it awaits, the pairs passed to
\* onProgress, per item the results passed to onImageComplete and how many
\* of them had been passed when the onProgress call that counts the item was
\* made (notified), and the state of the promise parallelMap returned. The
\* processor of convertImagesParallel is an
\* async function: when convertImage settles it runs to its return (one job),
\* and the worker that awaits it resumes in a later job; ready holds the
\* workers whose processor has returned, in the order of the job queue.
ConvertError == "Failed to convert image"

\* a bug: one worker more than the concurrency
WorkerCountOffByOne(concurrency, n) == Min(concurrency + 1, n)

\* Array(Math.min(concurrency, items.length))
WorkerCount(concurrency, n) == Min(concurrency, n)

\* Promise.all(workers): fulfils when every worker has ended
AllWorkers(run) ==
    IF run.promise = "pending" /\ \A w \in 1..Len(run.workers) : run.workers[w] = Absent
    THEN [run EXCEPT !.promise = "fulfilled"]
    ELSE run

\* the head of worker w's while loop: it takes the next index and calls the
\* processor, which runs up to its first await, or the worker ends
TakeNext(run, w) ==
    IF run.nextIndex < Len(run.items)
    THEN LET index == run.nextIndex
         IN  [run EXCEPT !.nextIndex = @ + 1,
                         !.workers[w] = Some(index),
                         !.state[index + 1] = "pending",
                         !.attempts[index + 1] = @ + 1]
    ELSE AllWorkers([run EXCEPT !.workers[w] = Absent])

RECURSIVE StartWorkers(_, _)
StartWorkers(run, w) ==
    IF w > Len(run.workers) THEN run ELSE StartWorkers(TakeNext(run, w), w + 1)

\* a bug: the result stored in the slot of the worker, not of the index
ResumeStoresByWorker(run, w, value) ==
    LET index == run.workers[w][1]
        r1 == [run EXCEPT !.results[w] = Some(value),
                          !.state[index + 1] = "fulfilled"]
        r2 == [r1 EXCEPT !.completed = @ + 1]
        r3 == [r2 EXCEPT !.progress = Append(@, <<r2.completed, Len(run.items)>>),
                         !.notified[index + 1] = Some(Len(run.imageComplete[index + 1]))]
    IN  TakeNext(r3, w)

\* the worker's await returns value: the result is stored and counted, the
\* progress reported, and the loop goes on
Resume(run, w, value) ==
    LET index == run.workers[w][1]
        r1 == [run EXCEPT !.results[index + 1] = Some(value),
                          !.state[index + 1] = "fulfilled"]
        r2 == [r1 EXCEPT !.completed = @ + 1]
        r3 == [r2 EXCEPT !.progress = Append(@, <<r2.completed, Len(run.items)>>),
                         !.notified[index + 1] = Some(Len(run.imageComplete[index + 1]))]
    IN  TakeNext(r3, w)

\* a bug: the completion callback left out when convertImage has thrown
WrappedSilentOnError(run, w, value) ==
    LET index == run.workers[w][1]
    IN  IF value.success
        THEN [run EXCEPT !.imageComplete[index + 1] = Append(@, value),
                         !.state[index + 1] = "returned",
                         !.ready = Append(@, <<w, value>>)]
        ELSE [run EXCEPT !.state[index + 1] = "returned",
                         !.ready = Append(@, <<w, value>>)]

\* the processor of convertImagesParallel after convertImage has settled: it
\* builds the item's result, passes it to onImageComplete and returns it
Wrapped(run, w, value) ==
    LET index == run.workers[w][1]
    IN  [run EXCEPT !.imageComplete[index + 1] = Append(@, value),
                    !.state[index + 1] = "returned",
                    !.ready = Append(@, <<w, value>>)]

\* the worker at the head of the job queue resumes with what its processor
\* returned
ResumeReady(run) ==
    Resume([run EXCEPT !.ready = Tail(@)], run.ready[1][1], run.ready[1][2])

\* the call that worker w awaits (convertImage, or parallelMap's own
\* processor) has settled with outcome o
Outcome(run, w, o) == [run EXCEPT !.settled[run.workers[w][1] + 1] = Some(o)]

\* the call that worker w awaits fulfils
MapFulfilled(run, w) ==
    LET id == run.items[run.workers[w][1] + 1]
        value == [id |-> id, success |-> TRUE, error |-> Undefined]
        r == Outcome(run, w, "fulfilled")
    IN  IF run.fn = "convertImagesParallel" THEN Wrapped(r, w, value) ELSE Resume(r, w, value)

\* the call that worker w awaits rejects: convertImagesParallel's processor
\* catches the error of convertImage and returns a failed result; a rejection
\* of parallelMap's own processor ends the worker and rejects Promise.all
MapRejected(run, w) ==
    LET index == run.workers[w][1]
        value == [id |-> run.items[index + 1], success |-> FALSE, error |-> ConvertError]
        r == Outcome(run, w, "rejected")
    IN  IF run.fn = "convertImagesParallel"
        THEN Wrapped(r, w, value)
        ELSE [r EXCEPT !.state[index + 1] = "rejected",
                         !.workers[w] = Absent,
                         !.promise = IF @ = "pending" THEN "rejected" ELSE @]

MapCalls ==
    [fn : {"parallelMap"}, n : 0..MaxMapItems, concurrency : 1..MaxMapConcurrency]
        \cup [fn : {"convertImagesParallel"}, n : 0..MaxClientImages,
               concurrency : {CLIENT_CONCURRENCY}]

InitMap ==
    /\ IdleProcessor
    /\ NoCall
    /\ batchRun = Absent /\ page = Absent /\ serverRun = Absent
    /\ \E c \in MapCalls :
          mapRun = [fn |-> c.fn, items |-> [i \in 1..c.n |-> IdOf(i)],
                    concurrency |-> c.concurrency, nextIndex |-> 0, completed |-> 0,
                    results |-> [i \in 1..c.n |-> Absent],
                    state |-> [i \in 1..c.n |-> "unstarted"],
                    attempts |-> [i \in 1..c.n |-> 0],
                    workers |-> <<>>, progress |-> <<>>,
                    imageComplete |-> [i \in 1..c.n |-> <<>>],
                    notified |-> [i \in 1..c.n |-> Absent],
                    settled |-> [i \in 1..c.n |-> Absent],
                    ready |-> <<>>, promise |-> "none"]

\* parallelMap(items, processor, options) up to await Promise.all(workers)
ParallelMap ==
    /\ mapRun.promise = "none"
    /\ LET k == WorkerCount(mapRun.concurrency, Len(mapRun.items))
           r1 == [mapRun EXCEPT !.workers = [w \in 1..k |-> Absent], !.promise = "pending"]
       IN  mapRun' = AllWorkers(StartWorkers(r1, 1))
    /\ UNCHANGED <<schedVars, call, ret, batchRun, page, serverRun>>

\* the processor call (for convertImagesParallel: the convertImage call) that
\* worker w waits for is still unsettled
Awaiting(w) ==
    /\ mapRun.workers[w] # Absent
    /\ mapRun.state[mapRun.workers[w][1] + 1] = "pending"

ProcessorFulfils(w) ==
    /\ Awaiting(w)
    /\ mapRun' = MapFulfilled(mapRun, w)
    /\ UNCHANGED <<schedVars, call, ret, batchRun, page, serverRun>>

ProcessorRejects(w) ==
    /\ Awaiting(w)
    /\ mapRun' = MapRejected(mapRun, w)
    /\ UNCHANGED <<schedVars, call, ret, batchRun, page, serverRun>>

\* the job of a worker whose processor has returned
WorkerResumes ==
    /\ mapRun.ready # <<>>
    /\ mapRun' = ResumeReady(mapRun)
    /\ UNCHANGED <<schedVars, call, ret, batchRun, page, serverRun>>

MapNext ==
    \/ ParallelMap
    \/ WorkerResumes
    \/ \E w \in 1..Len(mapRun.workers) : ProcessorFulfils(w)
    \/ \E w \in 1..Len(mapRun.workers) : ProcessorRejects(w)

MapSpec == InitMap /\ [][MapNext]_vars

\* ------------------------------------------------------------------ calculateResizeDimensions
\* The function of the two conversion routes (the same text in both). Its
\* arguments are integers; the locals aspectRatio, width and height are
\* doubles, kept here as exact fractions <<numerator, denominator>>, a
\* denominator 0 standing for Infinity. A quotient or product of doubles is
\* within a rounding error of the exact value, which changes Math.round only
\* when the exact value is a half-integer: there the computed double may lie
\* just below it (5 / (10 / 29) is 14.499999999999998), and which it is
\* depends on the operands. fl says which of the two happens.
Infinity == "Infinity"
FloatErrors == {"exact", "below"}

\* x > m for a fraction x and an integer m
Gt(x, m) == x[1] > m * x[2]

\* height * aspectRatio
MulBy(x, r) == <<x[1] * r[1], x[2] * r[2]>>

\* width / aspectRatio
DivBy(x, r) == <<x[1] * r[2], x[2] * r[1]>>

\* a bug: the fraction cut off instead of rounded
MathTrunc(x, fl) == IF x[2] = 0 THEN Infinity ELSE x[1] \div x[2]

\* Math.round: the nearest integer, a half-integer going up
MathRound(x, fl) ==
    IF x[2] = 0 THEN Infinity
    ELSE LET k == (2 * x[1] + x[2]) \div (2 * x[2])
         IN  IF (2 * x[1] + x[2]) % (2 * x[2]) = 0 /\ fl = "below" THEN k - 1 ELSE k

\* a bug: no resize as soon as one of the two bounds is kept
FitsEitherBound(originalWidth, originalHeight, maxWidth, maxHeight) ==
    \/ (maxWidth = 0 \/ originalWidth <= maxWidth)
    \/ (maxHeight = 0 \/ originalHeight <= maxHeight)

\* the condition of the first return: no constraint, or the image fits
Fits(originalWidth, originalHeight, maxWidth, maxHeight) ==
    /\ (maxWidth = 0 \/ originalWidth <= maxWidth)
    /\ (maxHeight = 0 \/ originalHeight <= maxHeight)

\* a bug: a dimension other than 0 is set to its bound whether it exceeds it or
\* not
AlwaysClamp(x, m) == m > 0 /\ x[1] > 0

\* maxWidth > 0 && width > maxWidth, and the same for the height
Exceeds(x, m) == m > 0 /\ Gt(x, m)

calculateResizeDimensions(originalWidth, originalHeight, maxWidth, maxHeight, maintainAspectRatio, fl) ==
    IF Fits(originalWidth, originalHeight, maxWidth, maxHeight)
    THEN [width |-> Absent, height |-> Absent, aspectRatio |-> Absent]
    ELSE IF ~maintainAspectRatio
    THEN [width |-> IF maxWidth > 0 THEN Some(Min(originalWidth, maxWidth)) ELSE Absent,
          height |-> IF maxHeight > 0 THEN Some(Min(originalHeight, maxHeight)) ELSE Absent,
          aspectRatio |-> Absent]
    ELSE LET aspectRatio == <<originalWidth, originalHeight>>
             w0 == <<originalWidth, 1>>
             h0 == <<originalHeight, 1>>
             byWidth == Exceeds(w0, maxWidth)
             w1 == IF byWidth THEN <<maxWidth, 1>> ELSE w0
             h1 == IF byWidth THEN DivBy(w1, aspectRatio) ELSE h0
             byHeight == Exceeds(h1, maxHeight)
             h2 == IF byHeight THEN <<maxHeight, 1>> ELSE h1
             w2 == IF byHeight THEN MulBy(h2, aspectRatio) ELSE w1
         IN  [width |-> Some(MathRound(w2, fl)), height |-> Some(MathRound(h2, fl)),
              aspectRatio |-> Some(aspectRatio)]

\* the arguments of the bounded check: what the routes pass, metadata.width || 0
\* and metadata.height || 0 with the options' bounds, and the two examples of
\* the specification
ResizeArgs ==
    [originalWidth : 0..MaxDim, originalHeight : 0..MaxDim, maxWidth : 0..MaxDim,
     maxHeight : 0..MaxDim, maintainAspectRatio : BOOLEAN]
        \cup [originalWidth : {4000, 1000}, originalHeight : {2000}, maxWidth : {1920},
               maxHeight : {1080}, maintainAspectRatio : {TRUE}]

InitResize ==
    /\ IdleProcessor
    /\ NoClientRun
    /\ \E a \in ResizeArgs, route \in {"convert-batch", "convert"} :
          call = [fn |-> "calculateResizeDimensions", route |-> route, args |-> a]
    /\ ret = Absent

\* the result of the call for the arguments a
Resized(a, fl) ==
    calculateResizeDimensions(a.originalWidth, a.originalHeight, a.maxWidth, a.maxHeight,
                              a.maintainAspectRatio, fl)

\* resizeOptions.width, resizeOptions.height as a condition: a number other
\* than 0
Truthy(x) == x # Absent /\ x[1] # 0

\* the resize step of the routes: pipeline.resize is called when both
\* dimensions are truthy; applied records whether it was
ResizeStep(r) ==
    [width |-> r.width, height |-> r.height, aspectRatio |-> r.aspectRatio,
     applied |-> Truthy(r.width) /\ Truthy(r.height)]

\* the call in convertSingleImage of the batch route, and its resize step
CallResizeBatchRoute ==
    /\ ret = Absent
    /\ call.route = "convert-batch"
    /\ \E fl \in FloatErrors : ret' = Some(ResizeStep(Resized(call.args, fl)))
    /\ UNCHANGED <<schedVars, call, clientVars>>

\* the call in the single-image route, and its resize step
CallResizeSingleRoute ==
    /\ ret = Absent
    /\ call.route = "convert"
    /\ \E fl \in FloatErrors : ret' = Some(ResizeStep(Resized(call.args, fl)))
    /\ UNCHANGED <<schedVars, call, clientVars>>

ResizeNext == CallResizeBatchRoute \/ CallResizeSingleRoute

ResizeSpec == InitResize /\ [][ResizeNext]_vars

\* ------------------------------------------------------------------ processInParallel
\* One call of processInParallel of the batch route. serverRun holds the
\* files (their ids), the concurrency, the locals queue, inProgress (each
\* promise named by the id of its file) and results, per file how many times
\* its conversion was started, where the loop stands ("none" before the call,
\* "awaiting" Promise.race, "ready" once that race has settled, "spinning" in
\* a turn that can neither start nor await anything, "returned"), and the
\* array the call returned.
SharpError == "Input buffer contains unsupported image format"

\* what convertSingleImage resolves with: its try block's result, or its catch
\* block's
ConvertedResult(id, ok) ==
    [id |-> id, success |-> ok, error |-> IF ok THEN Undefined ELSE SharpError]

\* a bug: the inner loop fills without looking at the limit
RECURSIVE FillIgnoresLimit(_)
FillIgnoresLimit(run) ==
    IF Len(run.queue) > 0
    THEN LET item == Head(run.queue)
         IN  FillIgnoresLimit([run EXCEPT !.queue = Tail(@),
                                          !.started[item] = @ + 1,
                                          !.inProgress = Append(@, item)])
    ELSE run

\* the inner while loop: queue.shift(), processOne(item) up to its await, and
\* inProgress.push(promise), while there is a file and a free slot
RECURSIVE Fill(_)
Fill(run) ==
    IF Len(run.queue) > 0 /\ Len(run.inProgress) < run.concurrency
    THEN LET item == Head(run.queue)
         IN  Fill([run EXCEPT !.queue = Tail(@),
                              !.started[item] = @ + 1,
                              !.inProgress = Append(@, item)])
    ELSE run

\* one turn of the outer while loop, from its test to its await or to the
\* return
LoopTurn(run) ==
    IF Len(run.queue) > 0 \/ Len(run.inProgress) > 0
    THEN LET r == Fill(run)
         IN  IF Len(r.inProgress) > 0 THEN [r EXCEPT !.loop = "awaiting"]
             ELSE [r EXCEPT !.loop = "spinning"]
    ELSE [run EXCEPT !.loop = "returned", !.returned = Some(run.results)]

\* inProgress.splice(inProgress.indexOf(promise), 1)
Splice(q, item) == SelectSeq(q, LAMBDA x : x # item)

\* a bug: the result of a failed conversion is not pushed
ProcessOneDropsFailure(run, item, result) ==
    [run EXCEPT !.results = IF result.success THEN Append(@, result) ELSE @,
                !.inProgress = Splice(@, item),
                !.loop = IF @ = "awaiting" THEN "ready" ELSE @]

\* processOne after its await, and the then callback of its promise: the
\* result is pushed, the promise leaves inProgress and settles, which settles
\* the race the loop awaits
ProcessOneDone(run, item, result) ==
    [run EXCEPT !.results = Append(@, result),
                !.inProgress = Splice(@, item),
                !.loop = IF @ = "awaiting" THEN "ready" ELSE @]

\* the calls of the bounded check: with a small concurrency, and as POST makes
\* it, with MAX_SERVER_CONCURRENCY
ServerCalls ==
    [n : 1..MaxFiles, concurrency : 1..MaxServerConcurrency \cup {MAX_SERVER_CONCURRENCY}]

InitServer ==
    /\ IdleProcessor
    /\ NoCall
    /\ batchRun = Absent /\ mapRun = Absent /\ page = Absent
    /\ \E c \in ServerCalls :
          serverRun = [files |-> [i \in 1..c.n |-> IdOf(i)], concurrency |-> c.concurrency,
                       queue |-> <<>>, inProgress |-> <<>>, results |-> <<>>,
                       started |-> [id \in {IdOf(i) : i \in 1..c.n} |-> 0],
                       loop |-> "none", returned |-> Absent]

\* processInParallel(files, options, concurrency) up to its first await
ProcessInParallel ==
    /\ serverRun.loop = "none"
    /\ serverRun' = LoopTurn([serverRun EXCEPT !.queue = serverRun.files])
    /\ UNCHANGED <<schedVars, call, ret, batchRun, mapRun, page>>

\* convertSingleImage resolves with a converted image
ConversionSucceeds(item) ==
    /\ \E k \in 1..Len(serverRun.inProgress) : serverRun.inProgress[k] = item
    /\ serverRun' = ProcessOneDone(serverRun, item, ConvertedResult(item, TRUE))
    /\ UNCHANGED <<schedVars, call, ret, batchRun, mapRun, page>>

\* the conversion throws: convertSingleImage catches and resolves with a failure
ConversionThrows(item) ==
    /\ \E k \in 1..Len(serverRun.inProgress) : serverRun.inProgress[k] = item
    /\ serverRun' = ProcessOneDone(serverRun, item, ConvertedResult(item, FALSE))
    /\ UNCHANGED <<schedVars, call, ret, batchRun, mapRun, page>>

\* the loop resumes after await Promise.race(inProgress)
LoopResumes ==
    /\ serverRun.loop = "ready"
    /\ serverRun' = LoopTurn(serverRun)
    /\ UNCHANGED <<schedVars, call, ret, batchRun, mapRun, page>>

ServerNext ==
    \/ ProcessInParallel
    \/ \E item \in DOMAIN serverRun.started : ConversionSucceeds(item)
    \/ \E item \in DOMAIN serverRun.started : ConversionThrows(item)
    \/ LoopResumes

ServerSpec == InitServer /\ [][ServerNext]_vars

\* Every conversion settles (sharp works on a buffer of finite size) and the
\* job queue runs every continuation.
FairServerSpec == InitServer /\ [][ServerNext]_vars /\ WF_vars(ServerNext)

\* ------------------------------------------------------------------ isConversionStale
\* ConversionOptions, with two values for every field
Qualities == {80, 60}
Widths == {1920, 800}
Heights == {1080, 600}
Formats == {"webp", "png"}
ConversionOptions ==
    [quality : Qualities, maxWidth : Widths, maxHeight : Heights,
     maintainAspectRatio : BOOLEAN, format : Formats]

\* the four fields that convertedWithSettings keeps
Snapshots == [quality : Qualities, maxWidth : Widths, maxHeight : Heights, format : Formats]

\* the convertedWithSettings object the handlers build from their options
SnapshotOf(o) ==
    [quality |-> o.quality, maxWidth |-> o.maxWidth, maxHeight |-> o.maxHeight,
     format |-> o.format]

Statuses == {"pending", "converting", "done", "error"}

\* a bug: the status of the image is not looked at
isConversionStaleAnyStatus(image, currentOptions) ==
    IF image.convertedWithSettings = Absent THEN FALSE
    ELSE LET snapshot == image.convertedWithSettings[1]
         IN  \/ snapshot.quality # currentOptions.quality
             \/ snapshot.maxWidth # currentOptions.maxWidth
             \/ snapshot.maxHeight # currentOptions.maxHeight
             \/ snapshot.format # currentOptions.format

isConversionStale(image, currentOptions) ==
    IF image.status # "done" \/ image.convertedWithSettings = Absent THEN FALSE
    ELSE LET snapshot == image.convertedWithSettings[1]
         IN  \/ snapshot.quality # currentOptions.quality
             \/ snapshot.maxWidth # currentOptions.maxWidth
             \/ snapshot.maxHeight # currentOptions.maxHeight
             \/ snapshot.format # currentOptions.format

\* the fields of an ImageFile that isConversionStale reads
StaleArgs ==
    [image : [status : Statuses, convertedWithSettings : {Absent} \cup {Some(p) : p \in Snapshots}],
     currentOptions : ConversionOptions]

InitStale ==
    /\ IdleProcessor
    /\ NoClientRun
    /\ \E a \in StaleArgs : call = [fn |-> "isConversionStale", args |-> a]
    /\ ret = Absent

CallIsConversionStale ==
    /\ ret = Absent
    /\ ret' = Some(isConversionStale(call.args.image, call.args.currentOptions))
    /\ UNCHANGED <<schedVars, call, clientVars>>

StaleNext == CallIsConversionStale

StaleSpec == InitStale /\ [][StaleNext]_vars

\* ------------------------------------------------------------------ the page
\* The Home component. page holds its state (images, options, isConverting),
\* cancelRef, what the last render showed (view: the handlers the user can
\* reach are the closures of that render, and they read its images), the
\* convertImage calls in flight, each with the options its handler passed to
\* convertImagesParallel, the object URLs created for converted images
\* (artifacts: for each URL the image it was made for, the options sent to the
\* converter, and whether it was ever stored in an image), and the URLs
\* revoked. The preview URLs of the originals are left out. A state update made in an event handler is rendered before the
\* next event; an update made after an await is rendered by a later job.
defaultOptions ==
    [quality |-> 80, maxWidth |-> 1920, maxHeight |-> 1080, maintainAspectRatio |-> TRUE,
     format |-> "webp"]

\* the options the user can set in the bounded check: the defaults, a change
\* of a field that the snapshot tracks, and a change of one that it does not
PageOptions ==
    {defaultOptions, [defaultOptions EXCEPT !.quality = 60],
     [defaultOptions EXCEPT !.maintainAspectRatio = FALSE]}

\* a new ImageFile of handleFilesAdded
NewImage(id) ==
    [id |-> id, status |-> "pending", convertedUrl |-> Absent, convertedWithSettings |-> Absent]

\* the render: the view and the handlers' closures are those of the state
Rendered(pg) == [pg EXCEPT !.view = [images |-> pg.images, isConverting |-> pg.isConverting]]

\* URL.revokeObjectURL(image.convertedUrl) for every image of imgs that has one
RevokeAll(pg, imgs) ==
    [pg EXCEPT !.revoked =
        @ \cup {imgs[k].convertedUrl[1] : k \in {j \in 1..Len(imgs) : imgs[j].convertedUrl # Absent}}]

\* img.status === "pending" || img.status === "error" || isConversionStale(img, options)
NeedsConversion(img, o) ==
    img.status = "pending" \/ img.status = "error" \/ isConversionStale(img, o)

\* the update both handlers make before the conversion starts
Converting == [status |-> "converting", convertedUrl |-> Absent]

\* { ...img, ...updates }
Updated(img, updates) ==
    [f \in DOMAIN img |-> IF f \in DOMAIN updates THEN updates[f] ELSE img[f]]

\* setImages(prev => prev.map(img => ids has img.id ? { ...img, ...updates } : img))
MapImages(pg, ids, updates) ==
    [pg EXCEPT !.images =
        [k \in 1..Len(@) |-> IF @[k].id \in ids THEN Updated(@[k], updates) ELSE @[k]]]

\* the convertImage calls that a handler starts for the images imgs
Started(imgs, kind, o) == [k \in 1..Len(imgs) |-> [id |-> imgs[k].id, kind |-> kind, options |-> o]]

\* a bug: the old URLs are not revoked before the images are converted again
handleConvertKeepsUrls(pg) ==
    LET imagesToConvert == SelectSeq(pg.view.images, LAMBDA img : NeedsConversion(img, pg.options))
        ids == {imagesToConvert[k].id : k \in 1..Len(imagesToConvert)}
        p1 == [pg EXCEPT !.isConverting = TRUE, !.cancelRef = FALSE]
        p3 == MapImages(p1, ids, Converting)
    IN  Rendered([p3 EXCEPT !.conversions = @ \o Started(imagesToConvert, "convert", pg.options)])

\* handleConvert up to its await
handleConvert(pg) ==
    LET imagesToConvert == SelectSeq(pg.view.images, LAMBDA img : NeedsConversion(img, pg.options))
        ids == {imagesToConvert[k].id : k \in 1..Len(imagesToConvert)}
        p1 == [pg EXCEPT !.isConverting = TRUE, !.cancelRef = FALSE]
        p2 == RevokeAll(p1, imagesToConvert)
        p3 == MapImages(p2, ids, Converting)
    IN  Rendered([p3 EXCEPT !.conversions = @ \o Started(imagesToConvert, "convert", pg.options)])

\* handleRetry(id) up to its await
handleRetry(pg, id) ==
    LET found == SelectSeq(pg.view.images, LAMBDA img : img.id = id)
        p1 == RevokeAll(pg, found)
        p2 == MapImages(p1, {id}, Converting)
    IN  IF found = <<>> THEN pg
        ELSE Rendered([p2 EXCEPT !.conversions = @ \o Started(found, "retry", pg.options)])

\* handleRemoveImage(id)
handleRemoveImage(pg, id) ==
    LET found == SelectSeq(pg.images, LAMBDA img : img.id = id)
        p1 == RevokeAll(pg, found)
    IN  Rendered([p1 EXCEPT !.images = SelectSeq(@, LAMBDA img : img.id # id)])

\* handleClearAll
handleClearAll(pg) ==
    LET p1 == RevokeAll(pg, pg.view.images)
    IN  Rendered([p1 EXCEPT !.images = <<>>])

\* a bug: the snapshot is taken from the options of the moment
SnapshotFromState(pg, c) == SnapshotOf(pg.options)

\* the convertedWithSettings that the handler of the conversion c stores: built
\* from the options of its closure, the ones it passed to convertImagesParallel
SnapshotStored(pg, c) == SnapshotOf(c.options)

\* the k-th conversion in flight succeeds: convertImage creates the object URL
\* and the handler (the onImageComplete callback of handleConvert, or
\* handleRetry after its await) stores the artifact in the image, if the
\* image is still there
Converted(pg, k) ==
    LET c == pg.conversions[k]
        url == Len(pg.artifacts) + 1
        skipped == c.kind = "convert" /\ pg.cancelRef
        present == \E j \in 1..Len(pg.images) : pg.images[j].id = c.id
        done == [status |-> "done", convertedUrl |-> Some(url),
                 convertedWithSettings |-> Some(SnapshotStored(pg, c))]
        p1 == [pg EXCEPT !.conversions = SelectSeq(@, LAMBDA x : x # c) ,
                         !.artifacts = Append(@, [id |-> c.id, options |-> c.options,
                                                  attached |-> ~skipped /\ present])]
    IN  IF skipped THEN p1 ELSE MapImages(p1, {c.id}, done)

\* the k-th conversion in flight fails
Failed == [status |-> "error"]

ConversionError(pg, k) ==
    LET c == pg.conversions[k]
        p1 == [pg EXCEPT !.conversions = SelectSeq(@, LAMBDA x : x # c)]
    IN  IF c.kind = "convert" /\ pg.cancelRef THEN p1 ELSE MapImages(p1, {c.id}, Failed)

InitPage ==
    /\ IdleProcessor
    /\ NoCall
    /\ batchRun = Absent /\ mapRun = Absent /\ serverRun = Absent
    /\ page = [images |-> <<>>, options |-> defaultOptions, isConverting |-> FALSE,
               cancelRef |-> FALSE, view |-> [images |-> <<>>, isConverting |-> FALSE],
               nextId |-> 1, conversions |-> <<>>, artifacts |-> <<>>, revoked |-> {}]

\* the ids of the images the user sees
Shown == {page.view.images[k].id : k \in 1..Len(page.view.images)}

\* handleFilesAdded with one supported file
FilesAdded ==
    /\ page.nextId <= MaxPageImages
    /\ page' = Rendered([page EXCEPT !.images = Append(@, NewImage(page.nextId)),
                                     !.nextId = @ + 1])
    /\ UNCHANGED <<schedVars, call, ret, batchRun, mapRun, serverRun>>

\* the user changes a setting: setOptions
OptionsChanged ==
    /\ \E o \in PageOptions \ {page.options} : page' = Rendered([page EXCEPT !.options = o])
    /\ UNCHANGED <<schedVars, call, ret, batchRun, mapRun, serverRun>>

\* the Convert button, enabled unless isConverting || needsConversionCount === 0
ConvertClicked ==
    /\ ~page.view.isConverting
    /\ \E k \in 1..Len(page.view.images) : NeedsConversion(page.view.images[k], page.options)
    /\ page' = handleConvert(page)
    /\ UNCHANGED <<schedVars, call, ret, batchRun, mapRun, serverRun>>

\* the Retry button of an image, shown when its status is "error"
RetryClicked(id) ==
    /\ \E k \in 1..Len(page.view.images) :
          page.view.images[k].id = id /\ page.view.images[k].status = "error"
    /\ page' = handleRetry(page, id)
    /\ UNCHANGED <<schedVars, call, ret, batchRun, mapRun, serverRun>>

\* the Remove button of an image
RemoveClicked(id) ==
    /\ id \in Shown
    /\ page' = handleRemoveImage(page, id)
    /\ UNCHANGED <<schedVars, call, ret, batchRun, mapRun, serverRun>>

\* the Clear All button, shown while there are images
ClearAllClicked ==
    /\ Shown # {}
    /\ page' = handleClearAll(page)
    /\ UNCHANGED <<schedVars, call, ret, batchRun, mapRun, serverRun>>

\* convertImage resolves for the k-th conversion in flight
ConvertImageResolves(k) ==
    /\ Len(page.artifacts) < MaxUrls
    /\ page' = Converted(page, k)
    /\ UNCHANGED <<schedVars, call, ret, batchRun, mapRun, serverRun>>

\* convertImage throws for the k-th conversion in flight
ConvertImageThrows(k) ==
    /\ page' = ConversionError(page, k)
    /\ UNCHANGED <<schedVars, call, ret, batchRun, mapRun, serverRun>>

\* handleConvert after its await: every conversion of the run has completed
ConvertReturns ==
    /\ page.isConverting
    /\ \A k \in 1..Len(page.conversions) : page.conversions[k].kind # "convert"
    /\ page' = [page EXCEPT !.isConverting = FALSE]
    /\ UNCHANGED <<schedVars, call, ret, batchRun, mapRun, serverRun>>

\* the render of the updates made after an await
Render ==
    /\ page # Rendered(page)
    /\ page' = Rendered(page)
    /\ UNCHANGED <<schedVars, call, ret, batchRun, mapRun, serverRun>>

PageNext ==
    \/ FilesAdded
    \/ OptionsChanged
    \/ ConvertClicked
    \/ \E id \in 1..MaxPageImages : RetryClicked(id)
    \/ \E id \in 1..MaxPageImages : RemoveClicked(id)
    \/ ClearAllClicked
    \/ \E k \in 1..Len(page.conversions) : ConvertImageResolves(k)
    \/ \E k \in 1..Len(page.conversions) : ConvertImageThrows(k)
    \/ ConvertReturns
    \/ Render

PageSpec == InitPage /\ [][PageNext]_vars

\* ------------------------------------------------------------------ properties
\* the tasks that were dispatched and have no terminal result yet
InFlight == {i \in TaskIx : phase[i] \in {"running", "backoff"}}

\* the TaskResult stored for task i
ResultOf(i) == MapGet(results, tasks[i].id)

\* C1: when processAll's promise is resolved every input task has its terminal
\* result, and the array has the input's length with, at index i, the stored
\* result that carries the id of the i-th input task and that task's outcome.
C1_ResultsInInputOrder ==
    promise = "resolved" =>
        /\ DOMAIN returned = 1..N
        /\ \A i \in TaskIx :
              /\ phase[i] = "done"
              /\ returned[i].id = tasks[i].id
              /\ \E k \in 1..Len(results) : results[k] = returned[i]
              /\ returned[i].success = (lastOutcome[i] = "ok")

\* C1 witness: three tasks, one with a priority, resolved although the tasks
\* completed in another order than the input's
C1_Witness ==
    /\ promise = "resolved"
    /\ N = 3
    /\ \E i \in TaskIx : tasks[i].priority = Some(1)
    /\ results[1].id = tasks[3].id
    /\ results[3].id = tasks[2].id

\* C2: the tasks in flight are exactly the activeCount, and never more than
\* the configured concurrency.
C2_ConcurrencyBound ==
    /\ activeCount = Cardinality(InFlight)
    /\ Cardinality(InFlight) <= options.concurrency

\* C2 witness: both slots of concurrency 2 busy while a third task waits
C2_Witness ==
    /\ options.concurrency = 2
    /\ activeCount = 2
    /\ Len(queue) = 1

\* C3: once cancel() was called, a task that was queued at that moment is never
\* dispatched (no executor call, no progress event), and when nothing is in
\* flight any more it has the Aborted result.
C3_QueuedTasksAborted ==
    abortController = "aborted" =>
        \A k \in 1..Len(cancelledAt) :
            LET i == cancelledAt[k]
            IN  /\ calls[i] = 0
                /\ events[i] = <<>>
                /\ InFlight = {} => ResultOf(i) = FailureResult(i, AbortedError)

\* C4: a cancelled run whose in-flight attempts have all settled or timed out
\* has resolved, with one result per input task.
C4_CancelledRunResolves ==
    (abortController = "aborted" /\ InFlight = {}) =>
        (promise = "resolved" /\ DOMAIN returned = 1..N)

\* C5: in a run that is not cancelled a failing task stops nothing: whenever no
\* task is in flight the promise has resolved (no task is left in the queue),
\* every task that ended on a failed attempt is stored as success=false with
\* the error of its last attempt, and the resolved array reports it so.
C5_FailuresDoNotAbortBatch ==
    (promise # "none" /\ abortController # "aborted") =>
        /\ InFlight = {} => promise = "resolved"
        /\ \A i \in TaskIx :
              (phase[i] = "done" /\ lastOutcome[i] # "ok") =>
                  /\ lastOutcome[i] \in {ExecutorError, InvalidInputError, TimeoutError}
                  /\ ResultOf(i) = FailureResult(i, lastOutcome[i])
                  /\ promise = "resolved" => returned[i] = ResultOf(i)
        /\ promise = "resolved" => \A i \in TaskIx : phase[i] = "done"

\* C5 witness: a resolved run of three tasks in which the first failed, by a
\* timeout after an executor error, and a later one succeeded
C5_Witness ==
    /\ promise = "resolved"
    /\ abortController # "aborted"
    /\ N = 3
    /\ returned[1].success = FALSE
    /\ returned[1].error = TimeoutError
    /\ fails[1] = 2
    /\ returned[3].success = TRUE

\* the m of the claims: the task's own maxRetries when set, the configured otherwise
RetriesAllowed(i) ==
    IF tasks[i].maxRetries # Absent THEN tasks[i].maxRetries[1] ELSE options.maxRetries

\* C6: without cancellation no task is attempted more than m+1 times, and a task
\* resolved as failed has been attempted exactly m+1 times, every attempt
\* failing, and carries the error of the last one.
C6_ExactlyMPlusOneAttempts ==
    abortController # "aborted" =>
        \A i \in TaskIx :
            /\ calls[i] <= RetriesAllowed(i) + 1
            /\ (phase[i] = "done" /\ ~ResultOf(i).success) =>
                  /\ calls[i] = RetriesAllowed(i) + 1
                  /\ fails[i] = calls[i]
                  /\ ResultOf(i).error = lastOutcome[i]

\* C6 witness: one task failed after 4 attempts under the configured limit 3,
\* another after 2 attempts under its own limit 1
C6_Witness ==
    /\ abortController # "aborted"
    /\ N = 2
    /\ options.maxRetries = 3
    /\ tasks[1].maxRetries = Absent /\ tasks[2].maxRetries = Some(1)
    /\ phase[1] = "done" /\ ~ResultOf(1).success /\ calls[1] = 4
    /\ phase[2] = "done" /\ ~ResultOf(2).success /\ calls[2] = 2

RECURSIVE SumOfDelays(_, _)
\* retryBaseDelay * 2^0 + ... + retryBaseDelay * 2^(n-1)
SumOfDelays(base, n) ==
    IF n = 0 THEN 0 ELSE SumOfDelays(base, n - 1) + base * (2 ^ (n - 1))

\* C7: a task waiting after its failed attempt k (k from 0) waits
\* retryBaseDelay * 2^k and k is not its last attempt; the waits a task has
\* completed are those after its failed attempts but the final one, so a task
\* that failed all m+1 attempts has waited the sum for k = 0..m-1.
C7_ExponentialBackoff ==
    \A i \in TaskIx :
        /\ phase[i] = "backoff" =>
              /\ fails[i] - 1 < RetriesAllowed(i)
              /\ delayMs[i] = options.retryBaseDelay * (2 ^ (fails[i] - 1))
              /\ waited[i] = SumOfDelays(options.retryBaseDelay, fails[i] - 1)
        /\ phase[i] # "backoff" =>
              waited[i] = SumOfDelays(options.retryBaseDelay,
                                      Min(fails[i], RetriesAllowed(i)))

\* C7 witness: a task that failed all 4 attempts of maxRetries 3 and has waited
\* 500 + 1000 + 2000
C7_Witness ==
    \E i \in TaskIx :
        /\ RetriesAllowed(i) = 3
        /\ phase[i] = "done"
        /\ fails[i] = 4
        /\ waited[i] = 3500

\* C8: a task whose attempt succeeded after j failed ones has success=true with
\* that attempt's result and exactly j+1 executor calls, in every later state
\* too; in a resolved run without cancellation the success=true results are as
\* many as the tasks with a successful attempt.
C8_SuccessAfterRetries ==
    /\ \A i \in TaskIx :
          lastOutcome[i] = "ok" =>
              /\ phase[i] = "done"
              /\ ResultOf(i) = SuccessResult(i)
              /\ calls[i] = fails[i] + 1
              /\ fails[i] <= RetriesAllowed(i)
    /\ (promise = "resolved" /\ abortController # "aborted") =>
          Cardinality({i \in TaskIx : returned[i].success}) =
              Cardinality({i \in TaskIx : lastOutcome[i] = "ok"})

\* C8 witness: a resolved run in which one task succeeded on its third attempt
\* and the other failed
C8_Witness ==
    /\ promise = "resolved"
    /\ abortController # "aborted"
    /\ N = 2
    /\ returned[1].success /\ calls[1] = 3 /\ fails[1] = 2
    /\ ~returned[2].success

\* a timed-out attempt is followed by what follows an executor error
AfterTimeout(i) ==
    \/ /\ phase[i] = "backoff"
       /\ fails[i] <= RetriesAllowed(i)
       /\ delayMs[i] = options.retryBaseDelay * (2 ^ (fails[i] - 1))
    \/ /\ phase[i] = "running"
       /\ calls[i] = fails[i] + 1
    \/ /\ phase[i] = "done"
       /\ \/ /\ fails[i] = RetriesAllowed(i) + 1
             /\ calls[i] = fails[i]
             /\ ResultOf(i) = FailureResult(i, TimeoutError)
          \/ /\ abortController = "aborted"
             /\ fails[i] <= RetriesAllowed(i)
             /\ ResultOf(i) = FailureResult(i, AbortedError)

\* C9: an attempt that timed out is retried like a failed one: its task waits
\* the backoff and starts another attempt, or, after m+1 failed attempts, is
\* failed with the timeout error. With only the timers firing (no executor ever
\* settling) a pending run that is not cancelled resolves.
C9_TimeoutRetriedAndTerminates ==
    /\ [](\A i \in TaskIx : lastOutcome[i] = TimeoutError => AfterTimeout(i))
    /\ (promise = "pending" ~> (promise = "resolved" \/ abortController = "aborted"))

\* C9 witness: a resolved run whose task timed out on each of its 4 attempts
C9_Witness ==
    /\ promise = "resolved"
    /\ abortController # "aborted"
    /\ \E i \in TaskIx :
          /\ RetriesAllowed(i) = 3
          /\ calls[i] = 4
          /\ waited[i] = 3500
          /\ ResultOf(i) = FailureResult(i, TimeoutError)
          /\ events[i] = <<"processing", "retrying", "retrying", "retrying", "failed">>

\* the tasks that have been dispatched
Dispatched == {i \in TaskIx : events[i] # <<>>}

\* C10: no dispatched task has left behind in the queue a task of strictly
\* higher priority or an earlier input task of equal priority (a missing
\* priority counting as 0), and the queue itself is in that order.
C10_PriorityOrder ==
    LET P(i) == IF tasks[i].priority = Absent THEN 0 ELSE tasks[i].priority[1]
        Before(a, b) == P(a) > P(b) \/ (P(a) = P(b) /\ a < b)
    IN  /\ \A k \in 1..Len(queue) : \A d \in Dispatched : ~Before(queue[k], d)
        /\ \A k, l \in 1..Len(queue) : k < l => Before(queue[k], queue[l])

\* C10 witness: the third task, of priority 1, was dispatched before the first
\* (no priority) and the second (priority 0), which wait in input order
C10_Witness ==
    /\ N = 3
    /\ tasks[1].priority = Absent /\ tasks[2].priority = Some(0)
    /\ tasks[3].priority = Some(1)
    /\ Dispatched = {3}
    /\ queue = <<1, 2>>

\* C11: while the run is not cancelled, a state with a task waiting in the queue
\* has every slot busy: a task that reached its terminal result was replaced by
\* the head of the queue in the same step.
C11_WorkConserving ==
    (abortController = "live" /\ Len(queue) > 0) => activeCount = options.concurrency

\* C11 witness: with concurrency 1 the first task is done, the second took its
\* slot at once and the third still waits
C11_Witness ==
    /\ abortController = "live"
    /\ options.concurrency = 1
    /\ completed = 1
    /\ activeCount = 1
    /\ Len(queue) = 1

\* C12: the batch callback has been called once per terminal result, its k-th
\* call with (k, N); when the promise is resolved it has been called N times, so
\* the last call was (N, N).
C12_BatchProgress ==
    /\ Len(batch) = Cardinality({i \in TaskIx : phase[i] = "done"})
    /\ \A k \in 1..Len(batch) : batch[k] = <<k, N>>
    /\ promise = "resolved" => Len(batch) = N

\* C12 witness: an uncancelled run of three tasks resolved after the calls
\* (1,3), (2,3), (3,3)
C12_Witness ==
    /\ promise = "resolved"
    /\ abortController = "live"
    /\ batch = << <<1, 3>>, <<2, 3>> , <<3, 3>> >>

\* C13: the events of a task that has its terminal result end with exactly one
\* terminal event, 'completed' if the result has success=true and 'failed' if
\* not, after 'processing' and 'retrying' events only; a task without a terminal
\* result has no terminal event.
C13_OneTerminalEvent ==
    \A i \in TaskIx :
        LET e == events[i]
            last == IF phase[i] = "done" THEN Len(e) - 1 ELSE Len(e)
        IN  /\ \A k \in 1..last : e[k] \in {"processing", "retrying"}
            /\ phase[i] = "done" =>
                  /\ Len(e) >= 2
                  /\ e[Len(e)] = IF ResultOf(i).success THEN "completed" ELSE "failed"

\* C13 witness: one task failed after a retry, another completed
C13_Witness ==
    /\ N >= 2
    /\ events[1] = <<"processing", "retrying", "failed">>
    /\ events[2] = <<"processing", "completed">>

\* how many of task i's events have the status st
EventCount(i, st) == Cardinality({k \in 1..Len(events[i]) : events[i][k] = st})

\* C14: a task has one 'processing' event per attempt started, retries
\* included, and a 'retrying' event exactly for each failed attempt that was
\* followed by another attempt: a task with its terminal result has one
\* 'retrying' event less than attempts.
C14_ProcessingEveryAttempt ==
    \A i \in TaskIx :
        /\ EventCount(i, "processing") = calls[i]
        /\ phase[i] = "done" => EventCount(i, "retrying") = calls[i] - 1

\* C15: a result carries the Aborted error only in a cancelled run, and a step
\* taken after cancel() starts no executor attempt, begins no backoff wait and
\* emits no 'retrying' event.
C15_AbortedNeverRetried ==
    /\ [](\A i \in TaskIx :
             (phase[i] = "done" /\ ResultOf(i).error = AbortedError)
                 => abortController = "aborted")
    /\ [][abortController = "aborted" =>
             \A i \in TaskIx :
                 /\ calls'[i] = calls[i]
                 /\ phase'[i] = "backoff" => phase[i] = "backoff"
                 /\ EventCount(i, "retrying")' = EventCount(i, "retrying")]_vars

\* C16: a task whose executor rejected on seeing the abort signal has, as its
\* terminal result, the Aborted outcome, whichever attempt that was.
C16_InFlightAborted ==
    \A i \in TaskIx :
        (phase[i] = "done" /\ lastOutcome[i] = SignalError) =>
            ResultOf(i) = [id |-> tasks[i].id, success |-> FALSE,
                           result |-> Absent, error |-> AbortedError]

\* C17: a task whose attempt failed with an InvalidInput error has its terminal
\* result at once: it was attempted a single time and has waited for no backoff
\* delay.
C17_InvalidInputNotRetried ==
    \A i \in TaskIx :
        lastOutcome[i] = InvalidInputError =>
            /\ phase[i] = "done"
            /\ calls[i] = 1
            /\ waited[i] = 0
            /\ ResultOf(i).error = InvalidInputError

\* C18: the Map holds one result per task that has its terminal result, under
\* that task's id; a result has an error exactly when its success flag is
\* false, and a payload only when the flag is true.
C18_ResultWellFormed ==
    /\ Len(results) = Cardinality({i \in TaskIx : phase[i] = "done"})
    /\ \A i \in TaskIx : phase[i] = "done" => MapHas(results, tasks[i].id)
    /\ \A k \in 1..Len(results) :
          /\ (results[k].error # Undefined) <=> ~results[k].success
          /\ results[k].result # Absent => results[k].success
    /\ \A k \in 1..Len(returned) :
          /\ returned[k].id = tasks[k].id
          /\ (returned[k].error # Undefined) <=> ~returned[k].success
          /\ returned[k].result # Absent => returned[k].success

\* C18 witness: a run resolved with a success, a failure after the retries and
\* an aborted task
C18_Witness ==
    /\ promise = "resolved"
    /\ N = 3
    /\ \E i, j, k \in TaskIx :
          /\ returned[i].success /\ returned[i].result # Absent
          /\ ~returned[j].success /\ returned[j].error = ExecutorError /\ calls[j] = 2
          /\ ~returned[k].success /\ returned[k].error = AbortedError

\* the chunks joined in order
RECURSIVE Flatten(_)
Flatten(chunks) == IF chunks = <<>> THEN <<>> ELSE Head(chunks) \o Flatten(Tail(chunks))

\* C20: what chunk and chunkArray return for size >= 1: no chunk is empty or
\* longer than size, every chunk but the last has exactly size elements, and
\* the chunks joined in order are the items.
C20_ChunksPartitionItems ==
    ret # Absent =>
        LET chunks == ret[1]
        IN  /\ \A k \in 1..Len(chunks) :
                  /\ Len(chunks[k]) >= 1
                  /\ Len(chunks[k]) <= call.size
                  /\ k < Len(chunks) => Len(chunks[k]) = call.size
            /\ Flatten(chunks) = call.items

\* C20 witness: four items in chunks of three give a full chunk and a last
\* chunk of one
C20_Witness ==
    /\ ret # Absent
    /\ call = [fn |-> "chunk", items |-> <<"a", "b", "b", "a">>, size |-> 3]
    /\ ret[1] = << <<"a", "b", "b">>, <<"a">> >>

\* C19: a processAll call made after a cancelled call on the same instance is
\* not touched by the earlier call: a step of a task of the earlier call leaves
\* queue, activeCount and results as they are, the Map holds results of the
\* call's own tasks only, the slots counted are those of its own tasks in
\* flight, and the array it resolves with has, at each index, the result of
\* its own task.
C19_NoStateAcrossCalls ==
    /\ []((promise # "none" /\ N > 0 /\ earlier.promise # "none") =>
             /\ \A k \in 1..Len(results) : \E i \in TaskIx : results[k].id = tasks[i].id
             /\ activeCount = Cardinality(InFlight)
             /\ promise = "resolved" =>
                   /\ DOMAIN returned = 1..N
                   /\ \A i \in TaskIx : returned[i].id = tasks[i].id)
    /\ [][(promise # "none" /\ N > 0 /\ earlier.tasks' # earlier.tasks) =>
             UNCHANGED <<queue, activeCount, results>>]_vars

\* how many results of the convertImagesBatch call carry the id
BatchResultCount(id) ==
    Cardinality({j \in 1..Len(batchRun.results) : batchRun.results[j].id = id})

\* C21: every item of a chunk whose request failed (response not OK, network
\* error, error while reading the response) has exactly one result, a
\* success=false one, and the call goes on with the chunks that remain: when
\* it returns, a request has been sent for every chunk.
C21_FailedChunkPerItemFailures ==
    batchRun.pc # "start" =>
        /\ \A k \in batchRun.failed : \A i \in 1..Len(batchRun.chunks[k]) :
              /\ BatchResultCount(batchRun.chunks[k][i]) = 1
              /\ \A j \in 1..Len(batchRun.results) :
                    batchRun.results[j].id = batchRun.chunks[k][i]
                        => ~batchRun.results[j].success
        /\ batchRun.pc = "returned" =>
              batchRun.sent = [j \in 1..Len(batchRun.chunks) |-> j]

\* C21 witness: the request of the first of two chunks failed, the second
\* chunk was sent and converted
C21_Witness ==
    /\ batchRun.pc = "returned"
    /\ Len(batchRun.chunks) = 2
    /\ batchRun.failed = {1}
    /\ batchRun.sent = <<1, 2>>
    /\ Len(batchRun.results) = 3
    /\ batchRun.results[3].success

\* C22: the array convertImagesBatch returns has one result per input item, at
\* the index of that item.
C22_BatchResultsInInputOrder ==
    batchRun.pc = "returned" =>
        /\ Len(batchRun.results) = Len(batchRun.images)
        /\ \A i \in 1..Len(batchRun.images) : batchRun.results[i].id = batchRun.images[i]

\* C23: the completed count passed to onProgress never decreases and never
\* exceeds the number of items, the total passed is that number, and when the
\* call of a non-empty list returns the last count passed was the total.
C23_ProgressMonotone ==
    batchRun.pc # "start" =>
        LET pr == batchRun.progress
            n == Len(batchRun.images)
        IN  /\ \A j \in 1..Len(pr) :
                  /\ pr[j][2] = n
                  /\ pr[j][1] <= n
                  /\ j > 1 => pr[j - 1][1] <= pr[j][1]
            /\ (batchRun.pc = "returned" /\ n > 0) =>
                  /\ Len(pr) > 0
                  /\ pr[Len(pr)][1] = n

\* C23 witness: a chunk that was not OK, reported at once, then a chunk with a
\* failed item
C23_Witness ==
    /\ batchRun.pc = "returned"
    /\ batchRun.progress = << <<2, 3>>, <<3, 3>> >>
    /\ batchRun.failed = {1}
    /\ ~batchRun.results[3].success

\* the items whose processor call has been made and has not settled
Unsettled == {i \in 1..Len(mapRun.items) : mapRun.state[i] = "pending"}

\* C24: parallelMap never has more processor calls unsettled than its
\* concurrency, so convertImagesParallel never has more than CLIENT_CONCURRENCY
\* convertImage calls in flight.
C24_MapConcurrencyBound ==
    /\ Cardinality(Unsettled) <= mapRun.concurrency
    /\ mapRun.fn = "convertImagesParallel" => Cardinality(Unsettled) <= CLIENT_CONCURRENCY

\* C24 witness: seven images, six in flight and the seventh not started
C24_Witness ==
    /\ mapRun.fn = "convertImagesParallel"
    /\ Len(mapRun.items) = 7
    /\ Cardinality(Unsettled) = 6
    /\ mapRun.state[7] = "unstarted"

\* C25: an item that convertImagesParallel reports as failed has been
\* attempted once and retried up to the configured limit.
C25_PerItemRetried ==
    mapRun.fn = "convertImagesParallel" =>
        \A i \in 1..Len(mapRun.items) :
            (mapRun.results[i] # Absent /\ ~mapRun.results[i][1].success)
                => mapRun.attempts[i] = DefaultMaxRetries + 1

\* C34: in convertImagesParallel the per-item completion callback is called
\* exactly once for every item, with the item's id and its final result, and
\* before the progress callback call that counts the item; a conversion that
\* throws gives a success=false result, and convertImagesParallel never rejects.
C34_ImageCompleteOncePerItem ==
    mapRun.fn = "convertImagesParallel" =>
        /\ mapRun.promise # "rejected"
        /\ \A i \in 1..Len(mapRun.items) :
              /\ Len(mapRun.imageComplete[i]) <= 1
              /\ mapRun.state[i] # "rejected"
              /\ mapRun.notified[i] # Absent => mapRun.notified[i] = Some(1)
              /\ mapRun.results[i] # Absent =>
                    /\ mapRun.imageComplete[i] = <<mapRun.results[i][1]>>
                    /\ mapRun.results[i][1].id = mapRun.items[i]
                    /\ mapRun.results[i][1].success <=> mapRun.settled[i] = Some("fulfilled")
              /\ mapRun.promise = "fulfilled" =>
                    mapRun.results[i] # Absent /\ mapRun.notified[i] # Absent

\* two images, the conversion of the first has thrown, the call has resolved
C34_Witness ==
    /\ mapRun.fn = "convertImagesParallel"
    /\ mapRun.promise = "fulfilled"
    /\ Len(mapRun.items) = 2
    /\ ~mapRun.results[1][1].success
    /\ mapRun.results[2][1].success

\* no processor call of the run has rejected
NoRejection == \A i \in 1..Len(mapRun.items) : mapRun.state[i] # "rejected"

Nearest(v, n, d) == 2 * v * d - 2 * n <= d /\ 2 * n - 2 * v * d <= d

\* the call needs a resize: some nonzero bound is exceeded by the original
ResizeNeeded(a) ==
    \/ (a.maxWidth > 0 /\ a.originalWidth > a.maxWidth)
    \/ (a.maxHeight > 0 /\ a.originalHeight > a.maxHeight)

\* C26: calculateResizeDimensions returns 'no resize' (width and height both
\* absent) exactly when each bound is 0 or not exceeded by the original,
\* whatever maintainAspectRatio is.
C26_NoResizeIffFits ==
    ret # Absent =>
        LET a == call.args
            r == ret[1]
        IN  (r.width = Absent /\ r.height = Absent)
                <=> /\ (a.maxWidth = 0 \/ a.originalWidth <= a.maxWidth)
                    /\ (a.maxHeight = 0 \/ a.originalHeight <= a.maxHeight)

\* a no-resize answer for an image that just fits two nonzero bounds
C26_Witness ==
    /\ ret # Absent
    /\ call.args.maxWidth > 0 /\ call.args.originalWidth = call.args.maxWidth
    /\ call.args.maxHeight > 0 /\ call.args.originalHeight < call.args.maxHeight
    /\ ret[1].width = Absent /\ ret[1].height = Absent

\* C27: for positive original dimensions and non-negative bounds, in both
\* aspect modes, a returned width is at most originalWidth and a returned
\* height at most originalHeight, also after rounding.
C27_NeverUpscales ==
    (ret # Absent /\ call.args.originalWidth > 0 /\ call.args.originalHeight > 0) =>
        LET a == call.args
            r == ret[1]
        IN  /\ r.width # Absent => r.width[1] <= a.originalWidth
            /\ r.height # Absent => r.height[1] <= a.originalHeight

\* a resize by the height bound whose derived width was rounded
C27_Witness ==
    /\ ret # Absent
    /\ call.args.maintainAspectRatio
    /\ call.args.originalWidth = 3 /\ call.args.originalHeight = 5
    /\ call.args.maxWidth = 4 /\ call.args.maxHeight = 4
    /\ ret[1].width = Some(2) /\ ret[1].height = Some(4)

\* C28: with maintainAspectRatio true and a resize needed, the result is the
\* two-step clamp: the width clamped to maxWidth if exceeded with the height
\* derived by the original ratio, then that height clamped to maxHeight if
\* still exceeded with the width derived by the ratio, each a nearest integer;
\* (4000,2000,1920,1080) gives (1920,960), (1000,2000,1920,1080) gives
\* (540,1080), and the result never exceeds a nonzero maxWidth or maxHeight.
C28_TwoStepClamp ==
    (ret # Absent /\ call.args.maintainAspectRatio /\ ResizeNeeded(call.args)) =>
        LET a == call.args
            r == ret[1]
            ow == a.originalWidth
            oh == a.originalHeight
            byWidth == a.maxWidth > 0 /\ ow > a.maxWidth
            \* the height after the first step, as hn / hd
            hn == IF byWidth THEN a.maxWidth * oh ELSE oh
            hd == IF byWidth THEN ow ELSE 1
            byHeight == a.maxHeight > 0 /\ hn > a.maxHeight * hd
            \* the width after the second step, as wn / wd
            wn == IF byHeight THEN a.maxHeight * ow ELSE IF byWidth THEN a.maxWidth ELSE ow
            wd == IF byHeight THEN oh ELSE 1
        IN  /\ r.width # Absent /\ r.height # Absent
            /\ Nearest(r.width[1], wn, wd)
            /\ IF byHeight THEN r.height[1] = a.maxHeight ELSE Nearest(r.height[1], hn, hd)
            /\ a.maxWidth > 0 => r.width[1] <= a.maxWidth
            /\ a.maxHeight > 0 => r.height[1] <= a.maxHeight
            /\ (ow = 4000 /\ oh = 2000) => (r.width = Some(1920) /\ r.height = Some(960))
            /\ (ow = 1000 /\ oh = 2000) => (r.width = Some(540) /\ r.height = Some(1080))

\* the first example of the specification
C28_Witness ==
    /\ ret # Absent
    /\ call.args.originalWidth = 4000 /\ call.args.originalHeight = 2000
    /\ call.args.maxWidth = 1920 /\ call.args.maxHeight = 1080
    /\ ret[1].width = Some(1920) /\ ret[1].height = Some(960)

\* C29: with maintainAspectRatio false and a resize needed, the width is
\* min(originalWidth, maxWidth) when maxWidth > 0, the height is
\* min(originalHeight, maxHeight) when maxHeight > 0, and the result is either
\* a full {width, height} pair or 'no resize'.
C29_IndependentClampFullPair ==
    (ret # Absent /\ ~call.args.maintainAspectRatio /\ ResizeNeeded(call.args)) =>
        LET a == call.args
            r == ret[1]
        IN  /\ a.maxWidth > 0 =>
                r.width = Some(IF a.originalWidth <= a.maxWidth THEN a.originalWidth
                               ELSE a.maxWidth)
            /\ a.maxHeight > 0 =>
                r.height = Some(IF a.originalHeight <= a.maxHeight THEN a.originalHeight
                                ELSE a.maxHeight)
            /\ (r.width = Absent) <=> (r.height = Absent)

\* C30: when the original height is 0, the resize calculation returns no
\* dimensions obtained through a division by zero: the call is guarded or
\* fails with an explicit InvalidDimensions error.
C30_ZeroHeightGuarded ==
    (ret # Absent /\ call.args.originalHeight = 0) => ret[1].aspectRatio = Absent

\* C39: whenever the original image exceeds a nonzero maxWidth or a nonzero
\* maxHeight, the resize is applied: the computed dimensions are both present
\* and positive, and the resize step is not skipped.
C39_ResizeAppliedWhenOverBound ==
    (ret # Absent /\ ResizeNeeded(call.args)) =>
        /\ ret[1].width # Absent /\ ret[1].height # Absent
        /\ ret[1].width[1] > 0 /\ ret[1].height[1] > 0
        /\ ret[1].applied

\* the three values of a getStats() result add up to the number of submitted
\* tasks, and each lies between 0 and that number
AddsUp(st) ==
    /\ st.activeCount + st.queueLength + st.completedCount = N
    /\ st.activeCount \in 0..N /\ st.queueLength \in 0..N /\ st.completedCount \in 0..N

\* C38: whenever getStats() can be called during a processAll run without
\* cancellation, between two jobs or from inside a status or batch progress
\* callback, activeCount + queueLength + completedCount is the number of
\* submitted tasks and each value lies between 0 and that number.
C38_StatsAddUp ==
    abortController # "aborted" =>
        /\ promise = "pending" => AddsUp(getStats(Cur))
        /\ stats.status # Absent => AddsUp(stats.status[1])
        /\ stats.batch # Absent => AddsUp(stats.batch[1])

\* executor calls of task i that have not settled: the one its current
\* attempt awaits, and the one of its latest ended attempt if a timeout ended
\* it (the call goes on, and nothing here makes it settle)
UnsettledCalls(i) ==
    (IF phase[i] = "running" THEN 1 ELSE 0) + (IF lastOutcome[i] = TimeoutError THEN 1 ELSE 0)

RECURSIVE SumUnsettled(_)
SumUnsettled(i) == IF i = 0 THEN 0 ELSE UnsettledCalls(i) + SumUnsettled(i - 1)

\* C40: at any time each task has at most one executor call that has not
\* settled, so the unsettled executor calls never exceed the concurrency, also
\* when attempts time out and are retried or the run is cancelled.
C40_OneUnsettledCallPerTask ==
    /\ \A i \in TaskIx : UnsettledCalls(i) <= 1
    /\ SumUnsettled(N) <= options.concurrency

\* C36: processInParallel never has more than `concurrency` conversions
\* started and not finished (8 as POST calls it), and while files are queued
\* every slot is taken whenever the loop waits: a queued file is started as
\* soon as a conversion in progress has finished.
C36_ServerConcurrencyBound ==
    LET inFlight == Len(serverRun.inProgress)
    IN  /\ inFlight <= serverRun.concurrency
        /\ serverRun.concurrency = MAX_SERVER_CONCURRENCY => inFlight <= 8
        /\ (serverRun.loop = "awaiting" /\ Len(serverRun.queue) > 0)
                => inFlight = serverRun.concurrency
        /\ serverRun.loop = "awaiting" => inFlight > 0

\* four files under concurrency 2: two results are in, two conversions run
C36_Witness ==
    /\ Len(serverRun.files) = 4
    /\ serverRun.concurrency = 2
    /\ serverRun.loop = "awaiting"
    /\ Len(serverRun.results) = 2
    /\ Len(serverRun.inProgress) = 2

\* the results of the file id among rs
ResultsOf(rs, id) == SelectSeq(rs, LAMBDA r : r.id = id)

\* no file has more than one result, no conversion was started twice, a
\* failed conversion has its error message, and the returned array has
\* exactly one result for every submitted file
OneResultPerFile ==
    /\ \A i \in 1..Len(serverRun.files) :
          /\ Len(ResultsOf(serverRun.results, serverRun.files[i])) <= 1
          /\ serverRun.started[serverRun.files[i]] <= 1
    /\ \A k \in 1..Len(serverRun.results) :
          serverRun.results[k].success <=> serverRun.results[k].error = Undefined
    /\ serverRun.loop # "spinning"
    /\ serverRun.returned # Absent =>
          /\ Len(serverRun.returned[1]) = Len(serverRun.files)
          /\ \A i \in 1..Len(serverRun.files) :
                Len(ResultsOf(serverRun.returned[1], serverRun.files[i])) = 1

\* C37: for every finite list of files processInParallel terminates and
\* returns exactly one result per submitted file id; a conversion that throws
\* gives a success=false entry with an error message and neither prevents,
\* fails nor duplicates the results of the other files.
C37_OneResultPerFile == []OneResultPerFile /\ <>(serverRun.returned # Absent)

\* three files returned, the second one failed, the others converted
C37_Witness ==
    /\ Len(serverRun.files) = 3
    /\ serverRun.returned # Absent
    /\ \A k \in 1..3 :
          serverRun.returned[1][k].success <=> serverRun.returned[1][k].id # IdOf(2)

\* C31: isConversionStale returns true exactly when the item has a completed
\* artifact with a settings snapshot and at least one of quality, maxWidth,
\* maxHeight, format differs between the snapshot and the current options;
\* false when there is no artifact; a change of maintainAspectRatio alone
\* never makes an artifact stale.
C31_StaleIffTrackedFieldDiffers ==
    ret # Absent =>
        LET image == call.args.image
            o == call.args.currentOptions
            hasArtifact == image.status = "done" /\ image.convertedWithSettings # Absent
        IN  /\ ret[1] <=> /\ hasArtifact
                           /\ \E f \in {"quality", "maxWidth", "maxHeight", "format"} :
                                 image.convertedWithSettings[1][f] # o[f]
            /\ ~hasArtifact => ~ret[1]
            /\ (hasArtifact /\ image.convertedWithSettings[1] = SnapshotOf(o)) => ~ret[1]

\* a completed item whose snapshot differs from the options in the format only
C31_Witness ==
    /\ ret = Some(TRUE)
    /\ call.args.image.status = "done"
    /\ call.args.image.convertedWithSettings[1].format # call.args.currentOptions.format
    /\ call.args.image.convertedWithSettings[1].quality = call.args.currentOptions.quality
    /\ call.args.image.convertedWithSettings[1].maxWidth = call.args.currentOptions.maxWidth
    /\ call.args.image.convertedWithSettings[1].maxHeight = call.args.currentOptions.maxHeight


\* the object URLs created so far
Urls == 1..Len(page.artifacts)

\* C32: a successfully converted item carries the artifact of its conversion
\* and the snapshot of the options that were sent to the converter for that
\* artifact, whatever the user did to the options meanwhile, so the item is
\* not stale with respect to the options it was converted with.
C32_SnapshotIsOptionsSent ==
    \A k \in 1..Len(page.images) :
        LET img == page.images[k]
        IN  img.status = "done" =>
              /\ img.convertedUrl # Absent
              /\ img.convertedUrl[1] \in Urls
              /\ page.artifacts[img.convertedUrl[1]].id = img.id
              /\ img.convertedWithSettings =
                     Some(SnapshotOf(page.artifacts[img.convertedUrl[1]].options))
              /\ ~isConversionStale(img, page.artifacts[img.convertedUrl[1]].options)

\* a conversion has just completed (its image is not yet rendered as done)
\* after the user changed the quality while it was running
C32_Witness ==
    \E k \in 1..Len(page.images) :
        /\ page.images[k].status = "done"
        /\ Len(page.view.images) = Len(page.images)
        /\ page.view.images[k].status = "converting"
        /\ page.artifacts[page.images[k].convertedUrl[1]].options.quality # page.options.quality

\* C33: when a new artifact is attached to an item, every artifact attached to
\* that item before has been revoked, and the item carries the newest; so of
\* the artifacts ever attached to an item, only its current one can be
\* unrevoked.
C33_SupersededArtifactsRevoked ==
    /\ \A u \in Urls : \A v \in Urls :
          (u < v /\ page.artifacts[u].id = page.artifacts[v].id
             /\ page.artifacts[u].attached /\ page.artifacts[v].attached)
          => u \in page.revoked
    /\ \A k \in 1..Len(page.images) : \A u \in Urls :
          (page.artifacts[u].id = page.images[k].id /\ page.artifacts[u].attached
             /\ u \notin page.revoked)
          => page.images[k].convertedUrl = Some(u)

\* an item was converted, reconverted or retried with a second artifact
\* attached, and then removed
C33_Witness ==
    /\ \E u \in Urls : \E v \in Urls :
          /\ u < v /\ page.artifacts[u].id = page.artifacts[v].id
          /\ page.artifacts[u].attached /\ page.artifacts[v].attached
          /\ v \in page.revoked
          /\ \A k \in 1..Len(page.images) : page.images[k].id # page.artifacts[u].id

\* Not an invariant of PageSpec: an attached artifact that no item carries any
\* more is revoked. Clear All, clicked before a completed conversion is
\* rendered, drops the image without revoking its new URL.
AttachedArtifactsNeverLeak ==
    \A u \in Urls :
        (page.artifacts[u].attached /\ u \notin page.revoked)
        => \E k \in 1..Len(page.images) : page.images[k].convertedUrl = Some(u)

\* Not an invariant of PageSpec: every object URL created is attached to the
\* item it was made for. An image removed while converting leaves its URL
\* unattached and unrevoked.
EveryArtifactAttached == \A u \in Urls : page.artifacts[u].attached

====
